---- MODULE Spec2Model ----
(***************************************************************************)
(* Model of the statping scheduler (internal/checker) and of the record    *)
(* store operations it uses (internal/storage).                            *)
(*                                                                         *)
(* One task record stands for one monitorState together with the goroutine *)
(* runMonitor started for it and the *storage.Monitor that goroutine       *)
(* holds.  recordSuccess and recordFailure run without the scheduler lock, *)
(* so they are split at their record-store calls: every step below is one  *)
(* store call together with the local statements around it, or one         *)
(* critical section of c.mu.                                               *)
(*                                                                         *)
(* The *storage.Monitor handed to Start, AddMonitor and UpdateMonitor is a *)
(* copy of the stored row, as Start makes it (monitor := m).  A replaced   *)
(* or removed task is signalled, not awaited: it finishes the evaluation   *)
(* it is in and may take one tick that was already delivered.              *)
(***************************************************************************)
EXTENDS Integers, Sequences, FiniteSets, TLC

\* ---------------------------------------------------------------- bounds
MaxTasks == 2
MaxChecks == 5
MaxDeletes == 1
MaxFaults == 1
\* longest expected-codes string tried exhaustively
MaxCodesLen == 4
\* longest keywords string and longest response body tried exhaustively
MaxKeywordsLen == 3
MaxBodyLen == 2
\* the clock runs from ClockStart for Horizon seconds, TimeStep at a time
ClockStart == 1000
Horizon == 300
TimeStep == 300
\* configured intervals and timeouts tried: -MaxSeconds .. MaxSeconds seconds
MaxSeconds == 61
\* longest list of monitors one round of the tray is computed for
MaxMonitors == 2

\* ------------------------------------------------------ program constants
DefaultCheckInterval == 60
DefaultTimeout == 10
DefaultMaxFailures == 3
NotificationCooldown == 300
\* checker.New: http.Client{Timeout: 30 * time.Second}
ClientTimeout == 30

\* A task reads and writes only the rows, the map entry and the notifications
\* of its own monitor id, so one id carries every behaviour of the scheduler.
MonitorIDs == {1}
TaskIDs == 1..MaxTasks

\* the zero time.Time (monitorState.lastNotified before any notification)
ZeroTime == 0
\* a NULL resolved_at column / nil *time.Time
NULL == -1
\* GetActiveIncident returning (nil, err)
NoIncident == [id |-> 0, mon |-> 0, resolvedAt |-> NULL, recoveryNotified |-> FALSE,
               errorMessage |-> 0]

VARIABLES
    clock,          \* wall clock, seconds
    dbMonitors,     \* monitors table: id -> row
    incidents,      \* incidents table: set of rows
    nextIncidentID, \* autoincrement primary key of the incidents table
    results,        \* check_results table: id -> number of rows
    monitors,       \* Checker.monitors: id -> task holding the monitorState, 0 = absent
    tasks,          \* monitorState + runMonitor goroutine + its *storage.Monitor
    nTasks,         \* goroutines started so far (WaitGroup adds)
    started,        \* Start has been called
    stopChan,       \* Checker.stopChan: "open" | "closed"
    stopCall,       \* Stop: "none" | "waiting" (in wg.Wait) | "returned"
    panicked,       \* the process died on close of a closed channel
    checks,         \* probes started so far
    deletes,        \* DeleteMonitor calls so far
    downLog,        \* NotifyDown calls: sequence of [mon, at]
    recoveryLog,    \* NotifyRecovery calls: sequence of [mon, incident]
    startErr,       \* the last Start returned an error
    storeDown,      \* the record store is failing: every call returns an error
    faults,         \* times the record store began to fail
    tray,           \* TrayApp.checkAllMonitors: the round in progress
    refresh,        \* TrayApp.checkAllMonitors started by "Refresh Now": its round
    snapshot,       \* Checker.GetStatus: the call in progress
    callArgs,       \* arguments of a call of a pure function
    callResult      \* what the call returned: [done, value]

vars == <<clock, dbMonitors, incidents, nextIncidentID, results, monitors, tasks,
          nTasks, started, stopChan, stopCall, panicked, checks, deletes, downLog,
          recoveryLog, startErr, storeDown, faults, tray, refresh, snapshot, callArgs,
          callResult>>

dbVars == <<dbMonitors, incidents, nextIncidentID, results>>
schedVars == <<monitors, nTasks, started, stopChan, stopCall, panicked>>
logVars == <<downLog, recoveryLog>>
envVars == <<clock, deletes>>
faultVars == <<storeDown, faults>>
callVars == <<callArgs, callResult>>
\* what the scheduler's tasks and operations never write
extVars == <<startErr, faultVars, tray, refresh, snapshot, callVars>>

\* A task: the monitorState (ticker, stopChan, lastNotified), the position of
\* its goroutine (pc), the fields of its *storage.Monitor (status, fails) and
\* the locals of the evaluation in progress (now, incident).  The remaining
\* fields are history, written but never read by the actions:
\*   prev        m.CurrentStatus when the evaluation in progress began
\*   evCreated   CreateIncident calls of the evaluation in progress
\*   evNotified  NotifyDown calls of the evaluation in progress
\*   gate        what the evaluation in progress found at its down-notification
\*               request: "untracked", "cooldown" (less than the window since
\*               lastNotified) or "open"
\*   fromUp      the failures counted in fails all followed a moment at which
\*               the status was up and the count 0
\*   sCreated    CreateIncident calls since that moment
\*   sNotified   NotifyDown calls since that moment
NoTask == [mon |-> 0, enabled |-> FALSE, status |-> "unknown", fails |-> 0,
           pc |-> "idle", stopped |-> FALSE, tickerOn |-> FALSE, tick |-> FALSE,
           lastNotified |-> ZeroTime, now |-> 0, incident |-> NoIncident,
           prev |-> "none", evCreated |-> 0, evNotified |-> 0, gate |-> "none",
           fromUp |-> FALSE, sCreated |-> 0, sNotified |-> 0]

\* a call of a pure function that has not returned yet
NoResult == [done |-> FALSE, value |-> <<>>]

\* no round of TrayApp.checkAllMonitors in progress.  A round holds the
\* slice ListEnabledMonitors returned (rows), the ids still to check (todo),
\* the loop variable mon, a copy of one row (its id mon, status, fails) and,
\* as history, the notification the evaluation of mon made (notified) and the
\* branch its probe took (class);
\* hasDown and hasSlow are the flags of the round, and color is
\* TrayApp.status, which outlives the round ("green" from tray.New)
NoRound == [pc |-> "idle", rows |-> <<>>, todo |-> {}, mon |-> 0,
            status |-> "unknown", fails |-> 0, notified |-> "none",
            class |-> "none", hasDown |-> FALSE, hasSlow |-> FALSE, color |-> "green"]

\* no call of Checker.GetStatus in progress.  A call holds the read lock of
\* c.mu from its first step to its return, the ids of c.monitors it has still
\* to visit (todo) and the map it is filling (status, "absent" = no entry)
NoSnapshot == [pc |-> "idle", todo |-> {},
               status |-> [id \in MonitorIDs |-> "absent"]]

\* ------------------------------------------------------------ record store

\* storage.Monitor defaults (gorm default:unknown, ConsecutiveFails 0)
NewRow == [exists |-> TRUE, status |-> "unknown", fails |-> 0]
NoRow == [exists |-> FALSE, status |-> "unknown", fails |-> 0]

\* Database.UpdateMonitor: gorm Save writes every field of the struct
SaveMonitor(rows, id, st, f) ==
    [rows EXCEPT ![id] = [exists |-> TRUE, status |-> st, fails |-> f]]

ActiveIncidents(incs, id) == {i \in incs : i.mon = id /\ i.resolvedAt = NULL}

\* Database.GetActiveIncident: First() orders by primary key
GetActiveIncident(incs, id) ==
    IF ActiveIncidents(incs, id) = {} THEN NoIncident
    ELSE CHOOSE i \in ActiveIncidents(incs, id) :
            \A j \in ActiveIncidents(incs, id) : i.id <= j.id

\* Database.CreateIncident
CreateIncident(incs, iid, id, msg) ==
    incs \cup {[id |-> iid, mon |-> id, resolvedAt |-> NULL, recoveryNotified |-> FALSE,
                errorMessage |-> msg]}

\* Database.ResolveIncident: UPDATE incidents SET resolved_at = now WHERE id = ?
ResolveIncident(incs, iid, at) ==
    {IF i.id = iid THEN [i EXCEPT !.resolvedAt = at] ELSE i : i \in incs}

\* Database.UpdateIncident: gorm Save writes every field of the struct it is
\* given, resolved_at included
UpdateIncident(incs, rec) ==
    {i \in incs : i.id # rec.id} \cup {rec}

\* a store write: what it leaves of the table (or counter) it writes.  While
\* the store is failing the call returns an error and changes nothing.
StoreWrite(old, new) == IF storeDown THEN old ELSE new

\* ----------------------------------------------------------------- strings

\* A Go string is a sequence of one-character strings.
Digits == {"0", "1", "2"}
DigitValue(c) == CASE c = "0" -> 0 [] c = "1" -> 1 [] c = "2" -> 2

\* unicode.IsSpace, of the characters tried
IsSpace(c) == c = " "

\* every string over alphabet of length n or less
StringsUpTo(alphabet, n) == UNION {[1..k -> alphabet] : k \in 0..n}

RECURSIVE SplitFrom(_, _, _)
\* strings.Split(s, sep) for a one-character sep: cur is the part being read
SplitFrom(s, sep, cur) ==
    IF s = <<>> THEN <<cur>>
    ELSE IF Head(s) = sep THEN <<cur>> \o SplitFrom(Tail(s), sep, <<>>)
    ELSE SplitFrom(Tail(s), sep, Append(cur, Head(s)))

Split(s, sep) == SplitFrom(s, sep, <<>>)

RECURSIVE TrimLeft(_)
TrimLeft(s) ==
    IF s # <<>> /\ IsSpace(Head(s)) THEN TrimLeft(Tail(s)) ELSE s

RECURSIVE TrimRight(_)
TrimRight(s) ==
    IF s # <<>> /\ IsSpace(s[Len(s)]) THEN TrimRight(SubSeq(s, 1, Len(s) - 1)) ELSE s

\* strings.TrimSpace
TrimSpace(s) == TrimRight(TrimLeft(s))

RECURSIVE LeadingDigits(_)
\* fmt scanNumber: the longest prefix of digits
LeadingDigits(s) ==
    IF s # <<>> /\ Head(s) \in Digits
    THEN <<Head(s)>> \o LeadingDigits(Tail(s))
    ELSE <<>>

RECURSIVE DecimalValue(_)
\* strconv.ParseInt(tok, 10, 64) of a string of digits
DecimalValue(tok) ==
    IF tok = <<>> THEN 0
    ELSE 10 * DecimalValue(SubSeq(tok, 1, Len(tok) - 1)) + DigitValue(tok[Len(tok)])

\* var code int; fmt.Sscanf(p, "%d", &code): skips leading space, takes an
\* optional sign and the digits that follow, and leaves whatever comes after
\* them unread; with no digit there the scan fails and code stays 0
ScanInt(p) ==
    LET q == TrimLeft(p)
        signed == q # <<>> /\ Head(q) \in {"+", "-"}
        tok == LeadingDigits(IF signed THEN Tail(q) ELSE q)
    IN  IF tok = <<>> THEN 0
        ELSE IF signed /\ Head(q) = "-" THEN 0 - DecimalValue(tok)
        ELSE DecimalValue(tok)

RECURSIVE PositiveCodes(_)
\* ParseExpectedCodes, the loop: TrimSpace, Sscanf, append when code > 0
PositiveCodes(parts) ==
    IF parts = <<>> THEN <<>>
    ELSE LET code == ScanInt(TrimSpace(Head(parts))) IN
         (IF code > 0 THEN <<code>> ELSE <<>>) \o PositiveCodes(Tail(parts))

\* storage.ParseExpectedCodes
ParseExpectedCodes(codes) ==
    IF codes = <<>> THEN <<200>>
    ELSE LET result == PositiveCodes(Split(codes, ",")) IN
         IF result = <<>> THEN <<200>> ELSE result

\* the expected-codes strings tried: every short string over these
\* characters, and the one of the documentation
CodeChars == {"2", "0", ",", " ", "x", "-"}
CodeStrings ==
    StringsUpTo(CodeChars, MaxCodesLen) \cup {<<"2", "0", "0", ",", "2", "0", "1">>}

RECURSIVE NonEmptyTrimmed(_)
\* ParseKeywords, the loop: TrimSpace, append when not empty
NonEmptyTrimmed(parts) ==
    IF parts = <<>> THEN <<>>
    ELSE LET kw == TrimSpace(Head(parts)) IN
         (IF kw # <<>> THEN <<kw>> ELSE <<>>) \o NonEmptyTrimmed(Tail(parts))

\* storage.ParseKeywords
ParseKeywords(keywords) ==
    IF keywords = <<>> THEN <<>> ELSE NonEmptyTrimmed(Split(keywords, ","))

\* mutant: matching that tells upper case from lower case
FoldNone(c) == c

\* the (?i) flag of the pattern: a letter stands for both its cases
Fold(c) ==
    CASE c = "K" -> "k"
      [] c = "O" -> "o"
      [] OTHER -> c

RECURSIVE MatchHere(_, _)
\* the quoted keyword matches at the start of text, letter by letter
MatchHere(kw, text) ==
    IF kw = <<>> THEN TRUE
    ELSE IF text = <<>> THEN FALSE
    ELSE Fold(Head(kw)) = Fold(Head(text)) /\ MatchHere(Tail(kw), Tail(text))

RECURSIVE MatchString(_, _)
\* regexp.MatchString("(?i)" + regexp.QuoteMeta(keyword), bodyStr): an
\* unanchored search, start position by start position
MatchString(kw, text) ==
    IF MatchHere(kw, text) THEN TRUE
    ELSE IF text = <<>> THEN FALSE
    ELSE MatchString(kw, Tail(text))

RECURSIVE FirstUnmatched(_, _)
\* performCheck, the keyword loop: the first keyword without a match, <<>>
\* when every keyword matches
FirstUnmatched(kws, body) ==
    IF kws = <<>> THEN <<>>
    ELSE IF ~MatchString(Head(kws), body) THEN Head(kws)
    ELSE FirstUnmatched(Tail(kws), body)

\* mutant: a status code accepted with its whole class (2xx, 4xx)
StatusAcceptedByClass(code, expectedCodes) ==
    \E i \in 1..Len(expectedCodes) : code \div 100 = expectedCodes[i] \div 100

\* performCheck: for _, code := range expectedCodes { if resp.StatusCode == code
StatusAccepted(code, expectedCodes) ==
    \E i \in 1..Len(expectedCodes) : expectedCodes[i] = code

\* the err performCheck hands to recordFailure, by the check that failed: the
\* error of net/http as it comes, or the fmt.Errorf text
ErrorText(why) ==
    CASE why = "request" -> "net/http: request error"
      [] why = "transport" -> "net/http: transport error"
      [] why = "read" -> "failed to read response body"
      [] why = "status" -> "unexpected status code"
      [] why = "keyword" -> "keyword not found in response"

\* mutant: a failure recorded without its error text
FailureResultNoText(code, msg) ==
    [success |-> FALSE, code |-> code, latency |-> 0, error |-> ""]

\* recordFailure: the CheckResult it creates (ResponseTime: 0,
\* ErrorMessage: err.Error())
FailureResult(code, msg) ==
    [success |-> FALSE, code |-> code, latency |-> 0, error |-> msg]

\* recordSuccess: the CheckResult it creates (ErrorMessage left empty)
SuccessResult(code, responseTime) ==
    [success |-> TRUE, code |-> code, latency |-> responseTime, error |-> ""]

\* the call performCheck ends in: recordSuccess (success) or recordFailure,
\* with the status code it passes on; reason tells which check failed,
\* keyword is the keyword the message names, and results are the CheckResults
\* the call created, in order
Outcome(ok, code, why, kw, responseTime) ==
    [success |-> ok, code |-> code, reason |-> why, keyword |-> kw,
     results |-> IF ok THEN <<SuccessResult(code, responseTime)>>
                 ELSE <<FailureResult(code, ErrorText(why))>>]

\* Checker.performCheck on a monitor with the given ExpectedCodes and Keywords
\* strings, for one course of the request: fault tells what failed on the way
\* ("request": NewRequestWithContext, "transport": client.Do, "read":
\* io.ReadAll, "none"), status and body are what the server sent, latency is
\* time.Since(startTime).Milliseconds() once the response has arrived
performCheck(in) ==
    IF in.fault = "request" THEN Outcome(FALSE, 0, "request", <<>>, in.latency)
    ELSE IF in.fault = "transport" THEN Outcome(FALSE, 0, "transport", <<>>, in.latency)
    ELSE IF in.fault = "read" THEN Outcome(FALSE, in.status, "read", <<>>, in.latency)
    ELSE IF ~StatusAccepted(in.status, ParseExpectedCodes(in.expected))
    THEN Outcome(FALSE, in.status, "status", <<>>, in.latency)
    ELSE LET missing == FirstUnmatched(ParseKeywords(in.keywords), in.body) IN
         IF missing # <<>> THEN Outcome(FALSE, in.status, "keyword", missing, in.latency)
         ELSE Outcome(TRUE, in.status, "none", <<>>, in.latency)

\* the requests tried: every short keywords string and body over these
\* characters, and the pair of the documentation
KeywordChars == {"k", "K", ",", " "}
BodyChars == {"k", "K", "o"}
ExampleKeywords == <<"o", "k", ",", "r", "e", "a", "d", "y">>
ExampleBody == <<"O", "K">>
StatusCodes == {200, 201, 404}
ExpectedStrings == {<<>>, <<"2", "0", "0", ",", "2", "0", "1">>}
Faults == {"none", "request", "transport", "read"}
\* response times in milliseconds: one second, and just over it
Latencies == {1000, 1001}
Requests ==
    [fault : Faults, status : StatusCodes, expected : ExpectedStrings,
     keywords : StringsUpTo(KeywordChars, MaxKeywordsLen),
     body : StringsUpTo(BodyChars, MaxBodyLen), latency : Latencies]
    \cup [fault : Faults, status : StatusCodes, expected : ExpectedStrings,
          keywords : {ExampleKeywords}, body : {ExampleBody}, latency : Latencies]

\* ---------------------------------------------------------------- checker

\* Durations are counted in whole seconds: m.CheckInterval and m.Timeout are
\* ints multiplied by time.Second, and the int64 nanosecond product does not
\* wrap for any value within MaxSeconds.
Seconds == (0 - MaxSeconds)..MaxSeconds

\* mutant: only a negative interval replaced by the default
intervalNegativeOnly(CheckInterval) ==
    IF CheckInterval < 0 THEN DefaultCheckInterval ELSE CheckInterval

\* startMonitor: interval := time.Duration(m.CheckInterval) * time.Second;
\* if interval < time.Second { interval = DefaultCheckInterval seconds };
\* the ticker of the task runs on it
interval(CheckInterval) ==
    IF CheckInterval < 1 THEN DefaultCheckInterval ELSE CheckInterval

\* performCheck: timeout := time.Duration(m.Timeout) * time.Second;
\* if timeout == 0 { timeout = DefaultTimeout seconds }
timeout(Timeout) ==
    IF Timeout = 0 THEN DefaultTimeout ELSE Timeout

\* performCheck: the request carries context.WithTimeout(ctx, timeout) and is
\* sent by c.client, whose own Timeout also ends it: the earlier of the two
\* is the deadline, counted from the start of the probe (a value below zero
\* is a deadline that has passed before the request is sent)
deadline(Timeout) ==
    IF timeout(Timeout) < ClientTimeout THEN timeout(Timeout) ELSE ClientTimeout

\* mutant: the threshold test passed by any failure
ThresholdReachedAlways(f) == f >= 1

\* mutant: the threshold test off by one
ThresholdReachedEarly(f) == f >= DefaultMaxFailures - 1

\* mutant: the threshold test passed one failure late
ThresholdReachedLate(f) == f >= DefaultMaxFailures + 1

\* recordFailure: m.ConsecutiveFails >= config.DefaultMaxFailures
ThresholdReached(f) == f >= DefaultMaxFailures

\* mutant: a zero lastNotified taken as "just notified"
CooldownElapsedNonZero(last, at) ==
    last # ZeroTime /\ at - last >= NotificationCooldown

\* mutant: a notification exactly one window after the last one suppressed
CooldownElapsedLate(last, at) == at - last > NotificationCooldown

\* recordFailure: time.Since(ms.lastNotified).Seconds() >= config.NotificationCooldown
CooldownElapsed(last, at) == at - last >= NotificationCooldown

\* checker.New on a store that holds the monitors, nothing started yet
Constructed ==
    /\ clock = ClockStart
    /\ dbMonitors = [id \in MonitorIDs |-> NewRow]
    /\ incidents = {}
    /\ nextIncidentID = 1
    /\ results = [id \in MonitorIDs |-> 0]
    /\ monitors = [id \in MonitorIDs |-> 0]
    /\ tasks = [t \in TaskIDs |-> NoTask]
    /\ nTasks = 0
    /\ started = FALSE
    /\ stopChan = "open"
    /\ stopCall = "none"
    /\ panicked = FALSE
    /\ checks = 0
    /\ deletes = 0
    /\ downLog = <<>>
    /\ recoveryLog = <<>>
    /\ startErr = FALSE
    /\ storeDown = FALSE
    /\ faults = 0
    /\ tray = NoRound
    /\ refresh = NoRound
    /\ snapshot = NoSnapshot

Init ==
    /\ Constructed
    /\ callArgs = <<>>
    /\ callResult = NoResult


\* ------------------------------------------------------- scheduler (c.mu)

\* ms.ticker.Stop() and close(ms.stopChan) of startMonitor / RemoveMonitor /
\* Stop on one monitorState.  Stop() does not drain the ticker's channel
\* (buffer of one): a tick delivered before it may still be in ms.ticker.C,
\* and the select of runMonitor then picks either ready case.
StopTask(task) ==
    [task EXCEPT !.tickerOn = FALSE, !.tick = TRUE, !.stopped = TRUE]

\* mutant: runMonitor entering its select loop without the first performCheck
FreshTaskWaiting(id, enabled) ==
    [NoTask EXCEPT !.mon = id,
                   !.enabled = enabled,
                   !.status = dbMonitors[id].status,
                   !.fails = dbMonitors[id].fails,
                   !.pc = "select",
                   !.tickerOn = TRUE,
                   !.fromUp = (dbMonitors[id].status = "up" /\ dbMonitors[id].fails = 0)]

\* the monitorState startMonitor builds for m, m a copy of the stored row
\* with the Enabled flag the caller gave it: zero lastNotified, running
\* ticker, and the goroutine runMonitor, which begins with performCheck
FreshTask(id, enabled) ==
    [NoTask EXCEPT !.mon = id,
                   !.enabled = enabled,
                   !.status = dbMonitors[id].status,
                   !.fails = dbMonitors[id].fails,
                   !.pc = "probe",
                   !.tickerOn = TRUE,
                   !.fromUp = (dbMonitors[id].status = "up" /\ dbMonitors[id].fails = 0)]

\* c.mu.Lock() returns only while no GetStatus holds the read lock; the
\* critical sections of c.mu.Lock() are single steps
MuFree == snapshot.pc = "idle"

\* Checker.startMonitor(m): replaces the tracked monitorState of m.ID
\* (stopping its ticker and closing its stopChan), registers the new one and
\* starts its goroutine.  Closing an already closed ms.stopChan panics.
startMonitor(id, enabled) ==
    /\ MuFree
    /\ nTasks < MaxTasks
    /\ checks < MaxChecks
    /\ dbMonitors[id].exists
    /\ LET old == monitors[id]
           new == nTasks + 1
       IN  IF old # 0 /\ tasks[old].stopped
           THEN /\ panicked' = TRUE
                /\ UNCHANGED <<tasks, monitors, nTasks, checks>>
           ELSE /\ tasks' = [t \in TaskIDs |->
                               IF t = new THEN FreshTask(id, enabled)
                               ELSE IF t = old THEN StopTask(tasks[t])
                               ELSE tasks[t]]
                /\ monitors' = [monitors EXCEPT ![id] = new]
                /\ nTasks' = new
                /\ checks' = checks + 1
                /\ UNCHANGED panicked

\* mutant: Start going on after a failed load
StartAbortsNever(err) == err /\ ~err

\* Checker.Start: if err != nil { return fmt.Errorf("failed to load monitors") }
StartAborts(err) == err

\* Checker.Start: ListEnabledMonitors, which may fail and does fail while the
\* store is failing; then startMonitor for every monitor the store holds.
\* The task of monitor id takes slot id.
Start ==
    /\ ~panicked
    /\ ~started
    /\ MonitorIDs \subseteq TaskIDs
    /\ Cardinality(MonitorIDs) <= MaxChecks
    /\ \E err \in {e \in BOOLEAN : storeDown => e} :
        IF StartAborts(err)
        THEN /\ startErr' = TRUE
             /\ UNCHANGED <<started, tasks, monitors, checks, nTasks>>
        ELSE /\ MuFree
             /\ startErr' = err
             /\ started' = TRUE
             /\ LET listed == {id \in MonitorIDs : dbMonitors[id].exists} IN
                 /\ tasks' = [t \in TaskIDs |->
                                IF t \in listed THEN FreshTask(t, TRUE) ELSE tasks[t]]
                 /\ monitors' = [id \in MonitorIDs |-> IF id \in listed THEN id ELSE 0]
                 /\ checks' = Cardinality(listed)
             /\ nTasks' = Cardinality(MonitorIDs)
    /\ UNCHANGED <<faultVars, tray, refresh, snapshot, callVars, envVars, dbVars, stopChan,
                   stopCall, panicked, logVars>>

\* Checker.AddMonitor(m), m.ID = id and m.Enabled = enabled: a disabled
\* monitor is ignored
AddMonitor(id, enabled) ==
    /\ ~panicked
    /\ started
    /\ IF enabled
       THEN startMonitor(id, enabled)
       ELSE UNCHANGED <<tasks, monitors, nTasks, checks, panicked>>
    /\ UNCHANGED <<extVars, envVars, dbVars, started, stopChan, stopCall, logVars>>

\* Checker.RemoveMonitor(id)
RemoveMonitor(id) ==
    /\ ~panicked
    /\ MuFree
    /\ started
    /\ monitors[id] # 0
    /\ IF tasks[monitors[id]].stopped
       THEN /\ panicked' = TRUE
            /\ UNCHANGED <<tasks, monitors>>
       ELSE /\ tasks' = [tasks EXCEPT ![monitors[id]] = StopTask(@)]
            /\ monitors' = [monitors EXCEPT ![id] = 0]
            /\ UNCHANGED panicked
    /\ UNCHANGED <<extVars, envVars, dbVars, nTasks, started, stopChan, stopCall, checks, logVars>>

\* Checker.UpdateMonitor(m), m.ID = id and m.Enabled = enabled:
\* RemoveMonitor(m.ID), then for an enabled m startMonitor(m), which finds no
\* tracked monitorState to replace
UpdateMonitor(id, enabled) ==
    /\ ~panicked
    /\ MuFree
    /\ started
    /\ monitors[id] # 0
    /\ enabled => (nTasks < MaxTasks /\ checks < MaxChecks /\ dbMonitors[id].exists)
    /\ IF tasks[monitors[id]].stopped
       THEN /\ panicked' = TRUE
            /\ UNCHANGED <<tasks, monitors, nTasks, checks>>
       ELSE IF enabled
       THEN /\ tasks' = [t \in TaskIDs |->
                    IF t = nTasks + 1 THEN FreshTask(id, enabled)
                    ELSE IF t = monitors[id] THEN StopTask(tasks[t])
                    ELSE tasks[t]]
            /\ monitors' = [monitors EXCEPT ![id] = nTasks + 1]
            /\ nTasks' = nTasks + 1
            /\ checks' = checks + 1
            /\ UNCHANGED panicked
       ELSE /\ tasks' = [tasks EXCEPT ![monitors[id]] = StopTask(@)]
            /\ monitors' = [monitors EXCEPT ![id] = 0]
            /\ UNCHANGED <<nTasks, checks, panicked>>
    /\ UNCHANGED <<extVars, envVars, dbVars, started, stopChan, stopCall, logVars>>

\* Checker.Stop up to wg.Wait(): close(c.stopChan), then stop and close every
\* tracked monitorState; either close panics on a closed channel
Stop ==
    /\ ~panicked
    /\ MuFree
    /\ started
    /\ stopCall # "waiting"
    /\ IF stopChan = "closed"
          \/ \E id \in MonitorIDs : monitors[id] # 0 /\ tasks[monitors[id]].stopped
       THEN /\ panicked' = TRUE
            /\ UNCHANGED <<tasks, stopChan, stopCall>>
       ELSE /\ stopChan' = "closed"
            /\ tasks' = [t \in TaskIDs |->
                    IF \E id \in MonitorIDs : monitors[id] = t
                    THEN StopTask(tasks[t])
                    ELSE tasks[t]]
            /\ stopCall' = "waiting"
            /\ UNCHANGED panicked
    /\ UNCHANGED <<extVars, envVars, dbVars, monitors, nTasks, started, checks, logVars>>

\* Checker.Stop: wg.Wait() returns once every started goroutine has exited
StopReturn ==
    /\ ~panicked
    /\ stopCall = "waiting"
    /\ \A t \in TaskIDs : tasks[t].pc \in {"idle", "exited"}
    /\ stopCall' = "returned"
    /\ UNCHANGED <<extVars, envVars, dbVars, monitors, tasks, nTasks, started, stopChan,
                   panicked, checks, logVars>>


\* Checker.GetStatus: c.mu.RLock(), status := make(map[uint]string)
gsRLock ==
    /\ ~panicked
    /\ snapshot.pc = "idle"
    /\ snapshot' = [pc |-> "reading",
                    todo |-> {id \in MonitorIDs : monitors[id] # 0},
                    status |-> [id \in MonitorIDs |-> "absent"]]
    /\ UNCHANGED <<startErr, faultVars, tray, refresh, callVars, envVars, dbVars, schedVars,
                   tasks, checks, logVars>>

\* what a read of ms.monitor.CurrentStatus gives.  The goroutine of the task
\* writes the field without c.mu: a read that falls together with the write
\* of the evaluation in progress is a data race on a two-word string and may
\* give a mixture of the old and the new value ("torn")
ReadStatus(task) ==
    {task.status} \cup (IF task.pc = "probe" THEN {"torn"} ELSE {})

\* Checker.GetStatus: status[id] = ms.monitor.CurrentStatus, one entry of
\* c.monitors at a time
gsRead(id) ==
    /\ ~panicked
    /\ snapshot.pc = "reading"
    /\ id \in snapshot.todo
    /\ \E st \in ReadStatus(tasks[monitors[id]]) :
        snapshot' = [snapshot EXCEPT !.todo = @ \ {id}, !.status[id] = st]
    /\ UNCHANGED <<startErr, faultVars, tray, refresh, callVars, envVars, dbVars, schedVars,
                   tasks, checks, logVars>>

\* Checker.GetStatus: return status, c.mu.RUnlock()
gsReturn ==
    /\ ~panicked
    /\ snapshot.pc = "reading"
    /\ snapshot.todo = {}
    /\ snapshot' = NoSnapshot
    /\ UNCHANGED <<startErr, faultVars, tray, refresh, callVars, envVars, dbVars, schedVars,
                   tasks, checks, logVars>>

\* ------------------------------------------------- runMonitor / performCheck

\* the fields of a task that recordSuccess / recordFailure keep only while
\* they run
Returned(task) ==
    [task EXCEPT !.pc = "select", !.now = 0, !.incident = NoIncident,
                 !.prev = "none", !.evCreated = 0, !.evNotified = 0, !.gate = "none"]

\* mutant: a store error ending the goroutine
IgnoreErrorExit(task) == IF storeDown THEN [task EXCEPT !.pc = "exited"] ELSE task

\* recordSuccess / recordFailure drop the error a store call returns
\* (c.db.CreateCheckResult(result) and the like are expression statements)
\* and go on with the statement that follows
IgnoreError(task) == task

\* mutant: every success handled as a recovery
WasDownAlways(st) == st \in {"unknown", "up", "down"}

\* recordSuccess: wasDown := m.CurrentStatus == "down"
WasDown(st) == st = "down"

\* mutant: every failure at or over the threshold handled as a first crossing
WasUpAlways(st) == st \in {"unknown", "up", "down"}

\* recordFailure: wasUp := m.CurrentStatus != "down"
WasUp(st) == st # "down"

\* performCheck ends in recordSuccess; recordSuccess up to db.UpdateMonitor(m):
\* CreateCheckResult, status up, count 0, UpdateMonitor
recordSuccess(t) ==
    /\ ~panicked
    /\ tasks[t].pc = "probe"
    /\ LET m == tasks[t].mon IN
        /\ results' = StoreWrite(results, [results EXCEPT ![m] = @ + 1])
        /\ dbMonitors' = StoreWrite(dbMonitors, SaveMonitor(dbMonitors, m, "up", 0))
        /\ tasks' = [tasks EXCEPT ![t] = IgnoreError(
              IF WasDown(tasks[t].status)
              THEN [@ EXCEPT !.status = "up", !.fails = 0, !.now = clock, !.pc = "rsGet",
                             !.prev = tasks[t].status,
                             !.fromUp = TRUE, !.sCreated = 0, !.sNotified = 0]
              ELSE Returned([@ EXCEPT !.status = "up", !.fails = 0,
                                      !.fromUp = TRUE, !.sCreated = 0, !.sNotified = 0]))]
    /\ UNCHANGED <<extVars, envVars, incidents, nextIncidentID, schedVars, checks, logVars>>

\* recordSuccess, wasDown: c.db.GetActiveIncident(m.ID); on its error the
\* Incident is left alone
rsGetActiveIncident(t) ==
    /\ ~panicked
    /\ tasks[t].pc = "rsGet"
    /\ LET inc == IF storeDown THEN NoIncident
                  ELSE GetActiveIncident(incidents, tasks[t].mon) IN
        tasks' = [tasks EXCEPT ![t] =
              IF inc = NoIncident THEN Returned(@)
              ELSE [@ EXCEPT !.incident = inc, !.pc = "rsResolve"]]
    /\ UNCHANGED <<extVars, envVars, dbVars, schedVars, checks, logVars>>

\* recordSuccess: c.db.ResolveIncident(incident.ID)
rsResolveIncident(t) ==
    /\ ~panicked
    /\ tasks[t].pc = "rsResolve"
    /\ incidents' = StoreWrite(incidents,
                               ResolveIncident(incidents, tasks[t].incident.id, clock))
    /\ tasks' = [tasks EXCEPT ![t] = IgnoreError(
          IF ~tasks[t].incident.recoveryNotified
          THEN [@ EXCEPT !.pc = "rsNotify"]
          ELSE Returned(@))]
    /\ UNCHANGED <<extVars, envVars, dbMonitors, nextIncidentID, results, schedVars, checks, logVars>>

\* recordSuccess: NotifyRecovery, incident.RecoveryNotified = true,
\* c.db.UpdateIncident(incident) with the struct GetActiveIncident returned
rsNotifyRecovery(t) ==
    /\ ~panicked
    /\ tasks[t].pc = "rsNotify"
    /\ recoveryLog' = Append(recoveryLog,
                             [mon |-> tasks[t].mon, incident |-> tasks[t].incident.id])
    /\ incidents' = StoreWrite(incidents,
          UpdateIncident(incidents, [tasks[t].incident EXCEPT !.recoveryNotified = TRUE]))
    /\ tasks' = [tasks EXCEPT ![t] = IgnoreError(Returned(@))]
    /\ UNCHANGED <<extVars, envVars, dbMonitors, nextIncidentID, results, schedVars, checks, downLog>>

\* recordFailure: errorMsg := err.Error(), the diagnostic of the failing probe.
\* The text of the probe that brings the count of its Monitor to f is named
\* by f: consecutive failing probes of a task have different diagnostics.
errorMsg(f) == f

\* performCheck ends in recordFailure; recordFailure up to its first branch:
\* CreateCheckResult, count + 1, threshold test, status down, and on the
\* first crossing CreateIncident
recordFailure(t) ==
    /\ ~panicked
    /\ tasks[t].pc = "probe"
    /\ LET m == tasks[t].mon
           f == tasks[t].fails + 1
       IN
        /\ results' = StoreWrite(results, [results EXCEPT ![m] = @ + 1])
        /\ IF ThresholdReached(f)
           THEN IF WasUp(tasks[t].status)
                THEN /\ incidents' = StoreWrite(incidents,
                                          CreateIncident(incidents, nextIncidentID, m,
                                                         errorMsg(f)))
                     /\ nextIncidentID' = StoreWrite(nextIncidentID, nextIncidentID + 1)
                     /\ tasks' = [tasks EXCEPT ![t] = IgnoreError(
                            [@ EXCEPT !.fails = f, !.status = "down",
                                      !.now = clock, !.pc = "rfNotify",
                                      !.prev = tasks[t].status,
                                      !.evCreated = 1, !.sCreated = @ + 1])]
                ELSE /\ tasks' = [tasks EXCEPT ![t] = IgnoreError(
                            [@ EXCEPT !.fails = f, !.status = "down",
                                      !.now = clock, !.pc = "rfGet",
                                      !.prev = tasks[t].status])]
                     /\ UNCHANGED <<incidents, nextIncidentID>>
           ELSE /\ tasks' = [tasks EXCEPT ![t] = IgnoreError(
                       [@ EXCEPT !.fails = f, !.now = clock, !.pc = "rfSave",
                                 !.prev = tasks[t].status])]
                /\ UNCHANGED <<incidents, nextIncidentID>>
    /\ UNCHANGED <<extVars, envVars, dbMonitors, schedVars, checks, logVars>>

\* recordFailure, already down: c.db.GetActiveIncident(m.ID); on its error
\* neither the Incident is updated nor a notification requested
rfGetActiveIncident(t) ==
    /\ ~panicked
    /\ tasks[t].pc = "rfGet"
    /\ LET inc == IF storeDown THEN NoIncident
                  ELSE GetActiveIncident(incidents, tasks[t].mon) IN
        tasks' = [tasks EXCEPT ![t] =
              IF inc = NoIncident THEN [@ EXCEPT !.pc = "rfSave"]
              ELSE [@ EXCEPT !.incident = inc, !.pc = "rfUpdate"]]
    /\ UNCHANGED <<extVars, envVars, dbVars, schedVars, checks, logVars>>

\* recordFailure, already down: incident.ErrorMessage = errorMsg,
\* c.db.UpdateIncident(incident)
rfUpdateIncident(t) ==
    /\ ~panicked
    /\ tasks[t].pc = "rfUpdate"
    /\ LET incident == [tasks[t].incident EXCEPT
                            !.errorMessage = errorMsg(tasks[t].fails)] IN
        /\ incidents' = StoreWrite(incidents, UpdateIncident(incidents, incident))
        /\ tasks' = [tasks EXCEPT ![t] =
                        IgnoreError([@ EXCEPT !.incident = incident, !.pc = "rfNotify"])]
    /\ UNCHANGED <<extVars, envVars, dbMonitors, nextIncidentID, results, schedVars, checks, logVars>>

\* recordFailure: the critical section of c.mu: ms := c.monitors[m.ID]; if it
\* is tracked and the cooldown has elapsed, NotifyDown and ms.lastNotified = now
rfNotifyDown(t) ==
    /\ ~panicked
    /\ MuFree
    /\ tasks[t].pc = "rfNotify"
    /\ LET ms == monitors[tasks[t].mon]
           found == IF ms = 0 THEN "untracked"
                    ELSE IF clock - tasks[ms].lastNotified < NotificationCooldown
                         THEN "cooldown" ELSE "open"
           stamped == [u \in TaskIDs |->
                         IF u = ms THEN [tasks[u] EXCEPT !.lastNotified = tasks[t].now]
                         ELSE tasks[u]]
       IN
        IF ms # 0 /\ CooldownElapsed(tasks[ms].lastNotified, clock)
        THEN /\ downLog' = Append(downLog, [mon |-> tasks[t].mon, at |-> clock])
             /\ tasks' = [stamped EXCEPT ![t] =
                            [@ EXCEPT !.pc = "rfSave", !.gate = found,
                                      !.evNotified = @ + 1, !.sNotified = @ + 1]]
        ELSE /\ tasks' = [tasks EXCEPT ![t] = [@ EXCEPT !.pc = "rfSave", !.gate = found]]
             /\ UNCHANGED downLog
    /\ UNCHANGED <<extVars, envVars, dbVars, schedVars, checks, recoveryLog>>

\* recordFailure: the final c.db.UpdateMonitor(m)
rfUpdateMonitor(t) ==
    /\ ~panicked
    /\ tasks[t].pc = "rfSave"
    /\ dbMonitors' = StoreWrite(dbMonitors,
          SaveMonitor(dbMonitors, tasks[t].mon, tasks[t].status, tasks[t].fails))
    /\ tasks' = [tasks EXCEPT ![t] = IgnoreError(Returned(@))]
    /\ UNCHANGED <<extVars, envVars, incidents, nextIncidentID, results, schedVars, checks, logVars>>

\* mutant: a select with the ticker case only
StopSignalledNever(task) == FALSE

\* runMonitor: case <-ms.stopChan or case <-c.stopChan of the select is ready
StopSignalled(task) == task.stopped \/ stopChan = "closed"

\* runMonitor: select receives from ms.ticker.C and runs performCheck
selectTick(t) ==
    /\ ~panicked
    /\ tasks[t].pc = "select"
    /\ tasks[t].tickerOn \/ tasks[t].tick
    /\ checks < MaxChecks
    /\ checks' = checks + 1
    /\ tasks' = [tasks EXCEPT ![t] = [@ EXCEPT !.tick = FALSE, !.pc = "probe"]]
    /\ UNCHANGED <<extVars, envVars, dbVars, schedVars, logVars>>

\* runMonitor: select receives from ms.stopChan or c.stopChan and returns
selectStop(t) ==
    /\ ~panicked
    /\ tasks[t].pc = "select"
    /\ StopSignalled(tasks[t])
    /\ tasks' = [tasks EXCEPT ![t] = [@ EXCEPT !.pc = "exited", !.tick = FALSE]]
    /\ UNCHANGED <<extVars, envVars, dbVars, schedVars, checks, logVars>>

\* Database.DeleteMonitor(id), called by the TUI and the CLI on the store the
\* scheduler is using: deletes the monitor's check results, incidents and row
DeleteMonitor(id) ==
    /\ ~panicked
    /\ deletes < MaxDeletes
    /\ dbMonitors[id].exists
    /\ dbMonitors' = [dbMonitors EXCEPT ![id] = NoRow]
    /\ results' = [results EXCEPT ![id] = 0]
    /\ incidents' = {i \in incidents : i.mon # id}
    /\ deletes' = deletes + 1
    /\ UNCHANGED <<extVars, clock, nextIncidentID, schedVars, tasks, checks, logVars>>

\* ------------------------------------------------------------------- tray

\* checkAllMonitors: else if responseTime > 1000
SlowAbove == 1000

\* checkAllMonitors: the branch of the loop body a checkMonitor result takes:
\* "down" for checkErr != nil, "slow" for a response time over 1000 ms, "up"
Classify(ok, responseTime) ==
    IF ~ok THEN "down" ELSE IF responseTime > SlowAbove THEN "slow" ELSE "up"

\* mutant: the class of the probe stored as the status
StoredStatusByClass(class) == class

\* checkAllMonitors: mon.CurrentStatus = "up", in the slow branch as in the
\* last one
StoredStatus(class) == "up"

\* mutant: a successful probe that leaves the failure count as it was
trayEvaluateNoReset(status, fails, class) ==
    IF class = "down"
    THEN IF ThresholdReached(fails + 1)
         THEN [status |-> "down", fails |-> fails + 1,
               notified |-> IF WasUp(status) THEN "down" ELSE "none"]
         ELSE [status |-> status, fails |-> fails + 1, notified |-> "none"]
    ELSE [status |-> StoredStatus(class), fails |-> fails,
          notified |-> IF WasDown(status) THEN "recovery" ELSE "none"]

\* checkAllMonitors, loop body between t.mu.Lock() and t.mu.Unlock(): the
\* status evaluation on the copy mon, and the notification it makes
trayEvaluate(status, fails, class) ==
    IF class = "down"
    THEN IF ThresholdReached(fails + 1)
         THEN [status |-> "down", fails |-> fails + 1,
               notified |-> IF WasUp(status) THEN "down" ELSE "none"]
         ELSE [status |-> status, fails |-> fails + 1, notified |-> "none"]
    ELSE [status |-> StoredStatus(class), fails |-> 0,
          notified |-> IF WasDown(status) THEN "recovery" ELSE "none"]

\* mutant: yellow taking precedence over red
PassStatusSlowFirst(hasDown, hasSlow) ==
    IF hasSlow THEN "yellow" ELSE IF hasDown THEN "red" ELSE "green"

\* checkAllMonitors, after the loop: updateStatus("red" | "yellow" | "green")
PassStatus(hasDown, hasSlow) ==
    IF hasDown THEN "red" ELSE IF hasSlow THEN "yellow" ELSE "green"

\* checkAllMonitors, the loop from monitors[i] on with the flags so far, and
\* the overall status it ends in
RECURSIVE checkAllMonitorsFrom(_, _, _, _)
checkAllMonitorsFrom(pass, i, hasDown, hasSlow) ==
    IF i > Len(pass) THEN PassStatus(hasDown, hasSlow)
    ELSE LET class == Classify(pass[i].ok, pass[i].latency) IN
         checkAllMonitorsFrom(pass, i + 1, hasDown \/ class = "down",
                              hasSlow \/ class = "slow")

\* checkAllMonitors on the rows ListEnabledMonitors returned, each with the
\* result checkMonitor gives for it: the overall status shown ("green" at once
\* for no monitor) and the status and count saved for every monitor
checkAllMonitors(pass) ==
    [status |-> IF pass = <<>> THEN "green"
                ELSE checkAllMonitorsFrom(pass, 1, FALSE, FALSE),
     saved |-> [i \in 1..Len(pass) |->
                  trayEvaluate(pass[i].row.status, pass[i].row.fails,
                               Classify(pass[i].ok, pass[i].latency))]]

\* the rows an evaluation leaves in the store: down from the third
\* consecutive failure on, unknown or up below it
StoredRows ==
    {[status |-> st, fails |-> f] :
        st \in {"unknown", "up"}, f \in 0..(DefaultMaxFailures - 1)}
    \cup {[status |-> "down", fails |-> f] :
            f \in DefaultMaxFailures..(DefaultMaxFailures + 1)}

\* the rounds tried: every list of up to MaxMonitors rows and probe results
Passes ==
    StringsUpTo([row : StoredRows, ok : BOOLEAN, latency : Latencies], MaxMonitors)

\* checkAllMonitors: for i, mon := range monitors, in id order; the round is
\* over when no id is left, and the overall status is set
NextMonitor(round) ==
    IF round.todo = {}
    THEN [NoRound EXCEPT !.color = PassStatus(round.hasDown, round.hasSlow)]
    ELSE LET id == CHOOSE i \in round.todo : \A j \in round.todo : i <= j IN
         [round EXCEPT !.todo = @ \ {id}, !.mon = id, !.pc = "probe",
                       !.status = round.rows[id].status,
                       !.fails = round.rows[id].fails,
                       !.notified = "none", !.class = "none"]

\* TrayApp.checkAllMonitors up to its loop: ListEnabledMonitors; on its error
\* the round is over at once and nothing is shown, with no monitor it is over
\* with updateStatus("green").  The rounds of runChecker are taken one at a
\* time.
trayList ==
    /\ ~panicked
    /\ tray.pc = "idle"
    /\ checks < MaxChecks
    /\ LET listed == {id \in MonitorIDs : dbMonitors[id].exists} IN
        tray' = IF storeDown THEN tray
                ELSE IF listed = {} THEN [NoRound EXCEPT !.color = "green"]
                ELSE NextMonitor([NoRound EXCEPT !.rows = dbMonitors, !.todo = listed,
                                                 !.color = tray.color])
    /\ UNCHANGED <<startErr, refresh, faultVars, snapshot, callVars, envVars, dbVars, schedVars, tasks,
                   checks, logVars>>

\* checkAllMonitors, loop body up to t.mu.Unlock(): checkMonitor with outcome
\* ok after responseTime ms, CreateCheckResult, and the status evaluation on
\* the copy mon with its NotifyDown / NotifyRecovery
trayCheck(ok, responseTime) ==
    /\ ~panicked
    /\ tray.pc = "probe"
    /\ checks < MaxChecks
    /\ checks' = checks + 1
    /\ results' = StoreWrite(results, [results EXCEPT ![tray.mon] = @ + 1])
    /\ LET class == Classify(ok, responseTime)
           ev == trayEvaluate(tray.status, tray.fails, class)
       IN  tray' = [tray EXCEPT !.pc = "save", !.status = ev.status,
                                !.fails = ev.fails, !.notified = ev.notified,
                                !.class = class,
                                !.hasDown = @ \/ class = "down",
                                !.hasSlow = @ \/ class = "slow"]
    /\ UNCHANGED <<startErr, refresh, faultVars, snapshot, callVars, envVars, dbMonitors, incidents,
                   nextIncidentID, schedVars, tasks, logVars>>

\* checkAllMonitors, end of the loop body: t.db.UpdateMonitor(&mon), then the
\* next monitor of the slice
traySave ==
    /\ ~panicked
    /\ tray.pc = "save"
    /\ dbMonitors' = StoreWrite(dbMonitors,
          SaveMonitor(dbMonitors, tray.mon, tray.status, tray.fails))
    /\ tray' = NextMonitor(tray)
    /\ UNCHANGED <<startErr, refresh, faultVars, snapshot, callVars, envVars, incidents, nextIncidentID,
                   results, schedVars, tasks, checks, logVars>>

\* onReady, case <-mRefresh.ClickedCh: go t.checkAllMonitors().  The round of
\* that goroutine up to its loop, as trayList; with no monitor it ends with
\* updateStatus("green") on the TrayApp
refreshList ==
    /\ ~panicked
    /\ refresh.pc = "idle"
    /\ checks < MaxChecks
    /\ LET listed == {id \in MonitorIDs : dbMonitors[id].exists} IN
        /\ refresh' = IF storeDown \/ listed = {} THEN refresh
                      ELSE NextMonitor([NoRound EXCEPT !.rows = dbMonitors,
                                                       !.todo = listed])
        /\ tray' = IF ~storeDown /\ listed = {}
                   THEN [tray EXCEPT !.color = "green"] ELSE tray
    /\ UNCHANGED <<startErr, faultVars, snapshot, callVars, envVars, dbVars, schedVars,
                   tasks, checks, logVars>>

\* the loop body of the "Refresh Now" round up to t.mu.Unlock(), as trayCheck
refreshCheck(ok, responseTime) ==
    /\ ~panicked
    /\ refresh.pc = "probe"
    /\ checks < MaxChecks
    /\ checks' = checks + 1
    /\ results' = StoreWrite(results, [results EXCEPT ![refresh.mon] = @ + 1])
    /\ LET class == Classify(ok, responseTime)
           ev == trayEvaluate(refresh.status, refresh.fails, class)
       IN  refresh' = [refresh EXCEPT !.pc = "save", !.status = ev.status,
                                      !.fails = ev.fails, !.notified = ev.notified,
                                      !.class = class,
                                      !.hasDown = @ \/ class = "down",
                                      !.hasSlow = @ \/ class = "slow"]
    /\ UNCHANGED <<startErr, tray, faultVars, snapshot, callVars, envVars, dbMonitors,
                   incidents, nextIncidentID, schedVars, tasks, logVars>>

\* the end of the loop body of the "Refresh Now" round: t.db.UpdateMonitor(&mon),
\* then the next monitor, or after the last one updateStatus on the TrayApp
refreshSave ==
    /\ ~panicked
    /\ refresh.pc = "save"
    /\ dbMonitors' = StoreWrite(dbMonitors,
          SaveMonitor(dbMonitors, refresh.mon, refresh.status, refresh.fails))
    /\ refresh' = IF refresh.todo = {} THEN NoRound ELSE NextMonitor(refresh)
    /\ tray' = IF refresh.todo = {}
               THEN [tray EXCEPT !.color = PassStatus(refresh.hasDown, refresh.hasSlow)]
               ELSE tray
    /\ UNCHANGED <<startErr, faultVars, snapshot, callVars, envVars, incidents,
                   nextIncidentID, results, schedVars, tasks, checks, logVars>>

\* ------------------------------------------------------------- environment

\* the record store begins to fail (database locked, disk full, closed)
BreakStore ==
    /\ ~panicked
    /\ ~storeDown
    /\ faults < MaxFaults
    /\ storeDown' = TRUE
    /\ faults' = faults + 1
    /\ UNCHANGED <<startErr, tray, refresh, snapshot, callVars, envVars, dbVars, schedVars, tasks, checks,
                   logVars>>

\* the record store works again
RepairStore ==
    /\ ~panicked
    /\ storeDown
    /\ storeDown' = FALSE
    /\ UNCHANGED <<startErr, faults, tray, refresh, snapshot, callVars, envVars, dbVars, schedVars, tasks,
                   checks, logVars>>

\* inside recordSuccess / recordFailure (between its time.Now() and its return)
Evaluating(task) == task.pc \notin {"idle", "probe", "select", "exited"}

\* time passes, TimeStep seconds at a time; the store calls of one evaluation
\* take far less than that, so the clock moves between evaluations and while
\* probes are in flight
Advance ==
    /\ ~panicked
    /\ clock + TimeStep <= ClockStart + Horizon
    /\ \A t \in TaskIDs : ~Evaluating(tasks[t])
    /\ clock' = clock + TimeStep
    /\ UNCHANGED <<extVars, deletes, dbVars, schedVars, tasks, checks, logVars>>

Next ==
    \/ Start
    \/ \E id \in MonitorIDs, enabled \in BOOLEAN : AddMonitor(id, enabled)
    \/ \E id \in MonitorIDs : RemoveMonitor(id)
    \/ \E id \in MonitorIDs, enabled \in BOOLEAN : UpdateMonitor(id, enabled)
    \/ \E t \in TaskIDs : recordSuccess(t)
    \/ \E t \in TaskIDs : rsGetActiveIncident(t)
    \/ \E t \in TaskIDs : rsResolveIncident(t)
    \/ \E t \in TaskIDs : rsNotifyRecovery(t)
    \/ \E t \in TaskIDs : recordFailure(t)
    \/ \E t \in TaskIDs : rfGetActiveIncident(t)
    \/ \E t \in TaskIDs : rfUpdateIncident(t)
    \/ \E t \in TaskIDs : rfNotifyDown(t)
    \/ \E t \in TaskIDs : rfUpdateMonitor(t)
    \/ \E t \in TaskIDs : selectTick(t)
    \/ \E t \in TaskIDs : selectStop(t)
    \/ Advance

\* ----------------------------------------------------- pure functions

\* everything but the call in progress
progVars == <<envVars, dbVars, schedVars, tasks, checks, logVars, startErr,
              faultVars, tray, refresh, snapshot>>

\* a call ParseExpectedCodes(codes) returns
CallParseExpectedCodes ==
    /\ ~callResult.done
    /\ callArgs \in CodeStrings
    /\ callResult' = [done |-> TRUE, value |-> ParseExpectedCodes(callArgs)]
    /\ UNCHANGED <<progVars, callArgs>>

InitParse ==
    /\ Constructed
    /\ callArgs \in CodeStrings
    /\ callResult = NoResult

\* a call performCheck(m) returns
CallPerformCheck ==
    /\ ~callResult.done
    /\ callArgs \in Requests
    /\ callResult' = [done |-> TRUE, value |-> performCheck(callArgs)]
    /\ UNCHANGED <<progVars, callArgs>>

InitProbe ==
    /\ Constructed
    /\ callArgs \in Requests
    /\ callResult = NoResult

\* startMonitor settles the interval of the ticker it creates
CallInterval ==
    /\ ~callResult.done
    /\ callArgs \in Seconds
    /\ callResult' = [done |-> TRUE, value |-> interval(callArgs)]
    /\ UNCHANGED <<progVars, callArgs>>

InitInterval ==
    /\ Constructed
    /\ callArgs \in Seconds
    /\ callResult = NoResult

\* performCheck settles the deadline of the request it sends
CallDeadline ==
    /\ ~callResult.done
    /\ callArgs \in Seconds
    /\ callResult' = [done |-> TRUE, value |-> deadline(callArgs)]
    /\ UNCHANGED <<progVars, callArgs>>

InitDeadline ==
    /\ Constructed
    /\ callArgs \in Seconds
    /\ callResult = NoResult

\* a round of the tray returns
CallCheckAllMonitors ==
    /\ ~callResult.done
    /\ callArgs \in Passes
    /\ callResult' = [done |-> TRUE, value |-> checkAllMonitors(callArgs)]
    /\ UNCHANGED <<progVars, callArgs>>

InitPass ==
    /\ Constructed
    /\ callArgs \in Passes
    /\ callResult = NoResult

\* one round of the tray for every list of Passes
SpecPass == InitPass /\ [][CallCheckAllMonitors]_vars

\* the ticker interval for every CheckInterval of Seconds
SpecInterval == InitInterval /\ [][CallInterval]_vars

\* the probe deadline for every Timeout of Seconds
SpecDeadline == InitDeadline /\ [][CallDeadline]_vars

\* performCheck called on every request of Requests
SpecProbe == InitProbe /\ [][CallPerformCheck]_vars

\* ParseExpectedCodes called on every string of CodeStrings
SpecParse == InitParse /\ [][CallParseExpectedCodes]_vars

\* the scheduler at work: tasks, AddMonitor / RemoveMonitor / UpdateMonitor
Spec == Init /\ [][Next]_vars

\* the same with shutdown and with deletions in the store underneath
NextAll ==
    \/ Next
    \/ Stop
    \/ StopReturn
    \/ \E id \in MonitorIDs : DeleteMonitor(id)

SpecAll == Init /\ [][NextAll]_vars

\* the scheduler at work while GetStatus is called
NextStatus ==
    \/ Next
    \/ gsRLock
    \/ \E id \in MonitorIDs : gsRead(id)
    \/ gsReturn

SpecStatus == Init /\ [][NextStatus]_vars

\* the tasks Start started, on a record store that fails from time to time
NextFaulty ==
    \/ Start
    \/ \E t \in TaskIDs : recordSuccess(t)
    \/ \E t \in TaskIDs : rsGetActiveIncident(t)
    \/ \E t \in TaskIDs : rsResolveIncident(t)
    \/ \E t \in TaskIDs : rsNotifyRecovery(t)
    \/ \E t \in TaskIDs : recordFailure(t)
    \/ \E t \in TaskIDs : rfGetActiveIncident(t)
    \/ \E t \in TaskIDs : rfUpdateIncident(t)
    \/ \E t \in TaskIDs : rfNotifyDown(t)
    \/ \E t \in TaskIDs : rfUpdateMonitor(t)
    \/ \E t \in TaskIDs : selectTick(t)
    \/ Advance
    \/ BreakStore
    \/ RepairStore

SpecFaulty == Init /\ [][NextFaulty]_vars

\* the tasks Start started and the tray application's rounds on one store
NextTray ==
    \/ Start
    \/ \E t \in TaskIDs : recordSuccess(t)
    \/ \E t \in TaskIDs : rsGetActiveIncident(t)
    \/ \E t \in TaskIDs : rsResolveIncident(t)
    \/ \E t \in TaskIDs : rsNotifyRecovery(t)
    \/ \E t \in TaskIDs : recordFailure(t)
    \/ \E t \in TaskIDs : rfGetActiveIncident(t)
    \/ \E t \in TaskIDs : rfUpdateIncident(t)
    \/ \E t \in TaskIDs : rfNotifyDown(t)
    \/ \E t \in TaskIDs : rfUpdateMonitor(t)
    \/ \E t \in TaskIDs : selectTick(t)
    \/ Advance
    \/ trayList
    \/ \E ok \in BOOLEAN, responseTime \in Latencies : trayCheck(ok, responseTime)
    \/ traySave

SpecTray == Init /\ [][NextTray]_vars


\* a started scheduler whose only caller reconfigures monitors with
\* UpdateMonitor
NextUpdate ==
    \/ Start
    \/ \E id \in MonitorIDs, enabled \in BOOLEAN : UpdateMonitor(id, enabled)
    \/ \E t \in TaskIDs : recordSuccess(t)
    \/ \E t \in TaskIDs : rsGetActiveIncident(t)
    \/ \E t \in TaskIDs : rsResolveIncident(t)
    \/ \E t \in TaskIDs : rsNotifyRecovery(t)
    \/ \E t \in TaskIDs : recordFailure(t)
    \/ \E t \in TaskIDs : rfGetActiveIncident(t)
    \/ \E t \in TaskIDs : rfUpdateIncident(t)
    \/ \E t \in TaskIDs : rfNotifyDown(t)
    \/ \E t \in TaskIDs : rfUpdateMonitor(t)
    \/ \E t \in TaskIDs : selectTick(t)
    \/ \E t \in TaskIDs : selectStop(t)
    \/ Advance

SpecUpdate == Init /\ [][NextUpdate]_vars


\* a started scheduler reconfigured with UpdateMonitor while the monitored
\* site is unreachable: every probe fails
NextOutage ==
    \/ Start
    \/ \E id \in MonitorIDs, enabled \in BOOLEAN : UpdateMonitor(id, enabled)
    \/ \E t \in TaskIDs : recordFailure(t)
    \/ \E t \in TaskIDs : rfGetActiveIncident(t)
    \/ \E t \in TaskIDs : rfUpdateIncident(t)
    \/ \E t \in TaskIDs : rfNotifyDown(t)
    \/ \E t \in TaskIDs : rfUpdateMonitor(t)
    \/ \E t \in TaskIDs : selectTick(t)
    \/ \E t \in TaskIDs : selectStop(t)
    \/ Advance

SpecOutage == Init /\ [][NextOutage]_vars


\* Stop in a call sequence that closes no channel twice
StopOnce ==
    /\ Stop
    /\ ~panicked'

\* a scheduler that is started, read with GetStatus and stopped
NextStop ==
    \/ Start
    \/ \E t \in TaskIDs : recordSuccess(t)
    \/ \E t \in TaskIDs : rsGetActiveIncident(t)
    \/ \E t \in TaskIDs : rsResolveIncident(t)
    \/ \E t \in TaskIDs : rsNotifyRecovery(t)
    \/ \E t \in TaskIDs : recordFailure(t)
    \/ \E t \in TaskIDs : rfGetActiveIncident(t)
    \/ \E t \in TaskIDs : rfUpdateIncident(t)
    \/ \E t \in TaskIDs : rfNotifyDown(t)
    \/ \E t \in TaskIDs : rfUpdateMonitor(t)
    \/ \E t \in TaskIDs : selectTick(t)
    \/ \E t \in TaskIDs : selectStop(t)
    \/ gsRLock
    \/ \E id \in MonitorIDs : gsRead(id)
    \/ gsReturn
    \/ StopOnce
    \/ StopReturn
    \/ Advance

\* every probe, store call and notifier call of a task returns (the HTTP
\* client has a timeout); a select with a closed stop channel among its ready
\* cases takes it sooner or later (Go picks among ready cases at random); a
\* goroutine waiting in c.mu.Lock() gets the lock (sync.RWMutex holds back new
\* readers while a writer waits); GetStatus runs to its RUnlock; wg.Wait()
\* returns once the counter is zero
FairTask(t) ==
    /\ WF_vars(\/ recordSuccess(t) \/ recordFailure(t)
               \/ rsGetActiveIncident(t) \/ rsResolveIncident(t)
               \/ rsNotifyRecovery(t)
               \/ rfGetActiveIncident(t) \/ rfUpdateIncident(t)
               \/ rfUpdateMonitor(t))
    /\ SF_vars(rfNotifyDown(t))
    /\ SF_vars(selectStop(t))

FairStop ==
    /\ Init
    /\ [][NextStop]_vars
    /\ \A t \in TaskIDs : FairTask(t)
    /\ WF_vars((\E id \in MonitorIDs : gsRead(id)) \/ gsReturn)
    /\ WF_vars(StopReturn)


\* the tray application: the periodic rounds of runChecker and the rounds
\* "Refresh Now" starts
NextRefresh ==
    \/ trayList
    \/ \E ok \in BOOLEAN, responseTime \in Latencies : trayCheck(ok, responseTime)
    \/ traySave
    \/ refreshList
    \/ \E ok \in BOOLEAN, responseTime \in Latencies : refreshCheck(ok, responseTime)
    \/ refreshSave

SpecRefresh == Init /\ [][NextRefresh]_vars


\* ------------------------------------------------------------ monitor form

\* the longest value typed into the interval and the timeout field
MaxFieldLen == 2

\* mutant: the number read as fmt.Sscanf reads it, a prefix being enough
AtoiPrefix(s) == [ok |-> LeadingDigits(TrimLeft(s)) # <<>>, value |-> ScanInt(s)]

\* strconv.Atoi(s): an optional sign and then digits only, at least one;
\* anything else (the empty string, a space, a letter, a bare sign) is an
\* error.  The fields hold at most 5 and 3 characters: no value overflows.
Atoi(s) ==
    LET signed == s # <<>> /\ Head(s) \in {"+", "-"}
        tok == IF signed THEN Tail(s) ELSE s
        ok == tok # <<>> /\ \A i \in 1..Len(tok) : tok[i] \in Digits
    IN  [ok |-> ok,
         value |-> IF ~ok THEN 0
                   ELSE IF signed /\ Head(s) = "-" THEN 0 - DecimalValue(tok)
                   ELSE DecimalValue(tok)]

\* save: interval, err := strconv.Atoi(...); if err != nil || interval < 1
\* the default takes its place (also used for the timeout)
NumberOr(s, default) ==
    IF ~Atoi(s).ok \/ Atoi(s).value < 1 THEN default ELSE Atoi(s).value

\* save: the expected codes "200" put in place of an empty field
DefaultExpectedCodes == <<"2", "0", "0">>

\* formModel.save() on the values of the inputs: form.dbErr says whether the
\* store call (UpdateMonitor when editing, CreateMonitor otherwise) returns
\* an error.  The result is m.err ("" for nil), the Monitor written to the
\* store (none: <<>>) and whether the monitorSaved message is returned.
save(form) ==
    LET name == TrimSpace(form.name)
        url == TrimSpace(form.url)
        expectedCodes == TrimSpace(form.expectedCodes)
        monitor == [name |-> name,
                    url |-> url,
                    interval |-> NumberOr(form.interval, DefaultCheckInterval),
                    timeout |-> NumberOr(form.timeout, DefaultTimeout),
                    expectedCodes |-> IF expectedCodes = <<>>
                                      THEN DefaultExpectedCodes ELSE expectedCodes,
                    keywords |-> TrimSpace(form.keywords)]
    IN  IF name = <<>>
        THEN [err |-> "name is required", written |-> <<>>, saved |-> FALSE]
        ELSE IF url = <<>>
        THEN [err |-> "URL is required", written |-> <<>>, saved |-> FALSE]
        ELSE IF form.dbErr
        THEN [err |-> "store", written |-> <<>>, saved |-> FALSE]
        ELSE [err |-> "", written |-> <<monitor>>, saved |-> TRUE]

\* the characters typed into the two number fields, and the values tried
NumberChars == {"0", "2", "-", "x"}
NumberFields == StringsUpTo(NumberChars, MaxFieldLen)

\* the values tried for the name, the URL and the keywords
TextFields == {<<>>, <<" ">>, <<" ", "a", " ">>}

\* the values tried for the expected codes
CodeFields == {<<>>, <<" ">>, <<"2", "0", "1">>}

\* the forms saved
Forms ==
    [name : TextFields, url : TextFields, interval : NumberFields,
     timeout : NumberFields, expectedCodes : CodeFields, keywords : {<<>>},
     isEdit : BOOLEAN, dbErr : BOOLEAN]

\* the user saves the form
CallSave ==
    /\ ~callResult.done
    /\ callArgs \in Forms
    /\ callResult' = [done |-> TRUE, value |-> save(callArgs)]
    /\ UNCHANGED <<progVars, callArgs>>

InitForm ==
    /\ Constructed
    /\ callArgs \in Forms
    /\ callResult = NoResult

SpecForm == InitForm /\ [][CallSave]_vars


\* ------------------------------------------------------------------ claims

\* inside recordFailure, after its threshold branch was taken
InRecordFailure(task) == task.pc \in {"rfNotify", "rfGet", "rfUpdate", "rfSave"}

\* inside recordSuccess of a monitor that was down
InRecovery(task) == task.pc \in {"rsGet", "rsResolve", "rsNotify"}

C2_OneActiveIncident ==
    \A id \in MonitorIDs : Cardinality(ActiveIncidents(incidents, id)) <= 1

\* C3: when recordSuccess returns for a monitor that was down, the status is
\* up, the count is 0 and the monitor has no unresolved Incident.
C3_RecoveryResolves ==
    [][\A t \in TaskIDs :
          (InRecovery(tasks[t]) /\ tasks'[t].pc = "select") =>
              /\ tasks'[t].status = "up"
              /\ tasks'[t].fails = 0
              /\ ActiveIncidents(incidents', tasks[t].mon) = {}]_vars

\* C4: a resolved Incident stays in the store with the same resolution
\* timestamp, unless DeleteMonitor removes it.
C4_ResolvedOnce ==
    [][\A i \in incidents :
          i.resolvedAt # NULL =>
              \/ \E j \in incidents' : j.id = i.id /\ j.resolvedAt = i.resolvedAt
              \/ deletes' # deletes]_vars

\* the Incident created last for a monitor: the one of its current down-period
LatestIncident(incs, id) ==
    CHOOSE i \in incs : i.mon = id /\ \A j \in incs : j.mon = id => j.id <= i.id

\* C5: when recordSuccess returns for a monitor that was down, the status is
\* up, the Incident of that down-period is resolved and the evaluation has
\* made exactly one NotifyRecovery call.
C5_RecoveryNotifiesOnce ==
    [][\A t \in TaskIDs :
          (InRecovery(tasks[t]) /\ tasks'[t].pc = "select") =>
              /\ tasks'[t].status = "up"
              /\ \E i \in incidents' : i.mon = tasks[t].mon
              /\ LatestIncident(incidents', tasks[t].mon).resolvedAt # NULL
              /\ tasks[t].pc = "rsNotify"
              /\ Len(recoveryLog') = Len(recoveryLog) + 1]_vars

\* C6: no Incident has two NotifyRecovery calls.
C6_OneRecoveryPerIncident ==
    \A i, j \in 1..Len(recoveryLog) :
        i # j => recoveryLog[i].incident # recoveryLog[j].incident

\* C7: two NotifyDown calls for one monitor are at least the cooldown window
\* apart.
C7_DownCallsCooldownApart ==
    \A i, j \in 1..Len(downLog) :
        (i < j /\ downLog[i].mon = downLog[j].mon) =>
            downLog[j].at - downLog[i].at >= NotificationCooldown

\* the third of three consecutive failing probes that began at status up with
\* count 0, evaluated up to the final UpdateMonitor
ThirdFailureFromUp(task) ==
    task.pc = "rfSave" /\ task.fromUp /\ task.fails = DefaultMaxFailures

\* C8 as stated: three consecutive failing probes on an up monitor give status
\* down, exactly one Incident created and exactly one NotifyDown call.
C8_ScenarioA ==
    \A t \in TaskIDs : ThirdFailureFromUp(tasks[t]) =>
        /\ tasks[t].status = "down"
        /\ tasks[t].sCreated = 1
        /\ tasks[t].sNotified = 1

\* C8 amended: three consecutive failing probes on a monitor that is up with
\* count 0 give status down and exactly one Incident created; the NotifyDown
\* call is made, once and on the third probe, exactly when the monitor is
\* tracked and at least the cooldown window has passed since the lastNotified
\* of its tracking entry, and no NotifyDown call is made otherwise.
C8_ScenarioAGated ==
    \A t \in TaskIDs : ThirdFailureFromUp(tasks[t]) =>
        /\ tasks[t].status = "down"
        /\ tasks[t].sCreated = 1
        /\ tasks[t].evCreated = 1
        /\ tasks[t].sNotified = (IF tasks[t].gate = "open" THEN 1 ELSE 0)
        /\ tasks[t].evNotified = tasks[t].sNotified

\* C8 witness: the third failure from up, notified
C8_Witness ==
    \E t \in TaskIDs :
        /\ ThirdFailureFromUp(tasks[t])
        /\ tasks[t].prev = "up"
        /\ tasks[t].sNotified = 1
        /\ Len(downLog) = 1

\* C9: a failing probe that leaves the count below the threshold leaves the
\* status as it was, creates no Incident, requests and makes no notification.
C9_BelowThreshold ==
    \A t \in TaskIDs :
        (InRecordFailure(tasks[t]) /\ tasks[t].fails < DefaultMaxFailures) =>
            /\ tasks[t].status = tasks[t].prev
            /\ tasks[t].pc = "rfSave"
            /\ tasks[t].evCreated = 0
            /\ tasks[t].evNotified = 0
            /\ tasks[t].gate = "none"

\* C9 witness: the second failing probe on an up monitor
C9_Witness ==
    \E t \in TaskIDs :
        /\ tasks[t].pc = "rfSave"
        /\ tasks[t].fails = DefaultMaxFailures - 1
        /\ tasks[t].prev = "up"
        /\ tasks[t].status = "up"
        /\ incidents = {}
        /\ downLog = <<>>

\* a success evaluated by task t in this step
SuccessStep(t) ==
    /\ tasks[t].pc = "probe"
    /\ tasks'[t].pc # "probe"
    /\ tasks'[t].fails = 0

\* C10: a success evaluated while the status is up is one step that appends
\* the CheckResult, writes status up and count 0, and returns: no Incident is
\* created, resolved or updated, no notification is made, nothing else changes.
C10_SuccessWhileUp ==
    [][\A t \in TaskIDs :
          (SuccessStep(t) /\ tasks[t].status = "up") =>
              /\ tasks'[t].pc = "select"
              /\ tasks'[t].status = "up"
              /\ incidents' = incidents
              /\ nextIncidentID' = nextIncidentID
              /\ downLog' = downLog
              /\ recoveryLog' = recoveryLog
              /\ results' = [results EXCEPT ![tasks[t].mon] = @ + 1]
              /\ dbMonitors' = [dbMonitors EXCEPT ![tasks[t].mon] =
                                   [exists |-> TRUE, status |-> "up", fails |-> 0]]
              /\ monitors' = monitors
              /\ \A u \in TaskIDs \ {t} : tasks'[u] = tasks[u]
              /\ tasks'[t].lastNotified = tasks[t].lastNotified]_vars

\* C10 witness: a task that is up with count 0 after two successes, no
\* Incident and no notification having been made
C10_Witness ==
    \E t \in TaskIDs :
        /\ tasks[t].pc = "select"
        /\ tasks[t].status = "up"
        /\ results[tasks[t].mon] = 2
        /\ dbMonitors[tasks[t].mon] = [exists |-> TRUE, status |-> "up", fails |-> 0]
        /\ incidents = {}
        /\ downLog = <<>>
        /\ recoveryLog = <<>>

\* task t appends its CheckResult in this step (the first store call of
\* recordSuccess and of recordFailure)
RecordsResult(t) == tasks[t].pc = "probe" /\ tasks'[t].pc # "probe" /\ ~storeDown

\* a task whose stopChan RemoveMonitor closed: without Stop, a stopped task
\* that has no later task for its id (a replacement always starts one)
RemovedTask(t) ==
    /\ tasks[t].stopped
    /\ \A u \in TaskIDs : u > t => tasks[u].mon # tasks[t].mon

\* C11: once RemoveMonitor(id) has returned, the removed task appends no
\* CheckResult, whether a probe was in flight or a tick pending.
C11_NoResultAfterRemove ==
    [][\A t \in TaskIDs : RemovedTask(t) => ~RecordsResult(t)]_vars

\* C12: Stop returns only when every task goroutine has exited, and after it
\* has returned no task appends a CheckResult, whatever is called afterwards.
C12_NoResultAfterStop ==
    [][/\ (stopCall # "returned" /\ stopCall' = "returned") =>
              \A t \in TaskIDs : tasks[t].pc \in {"idle", "exited"}
       /\ stopCall = "returned" => \A t \in TaskIDs : ~RecordsResult(t)]_vars

\* inside performCheck or the recordSuccess / recordFailure it ends in
InCheck(task) == task.pc \notin {"idle", "select", "exited"}

\* C13: no two tasks of one monitor id are inside a check at the same time.
C13_NoOverlap ==
    \A t, u \in TaskIDs :
        (t # u /\ tasks[t].mon # 0 /\ tasks[t].mon = tasks[u].mon) =>
            ~(InCheck(tasks[t]) /\ InCheck(tasks[u]))

\* C14: a step of AddMonitor (or of the add inside UpdateMonitor) that starts
\* a task starts it for an enabled monitor and inside its first performCheck,
\* not at the select that waits for a tick; no task ever runs for a monitor
\* that was handed over disabled.
C14_AddChecksAtOnce ==
    [][/\ (started /\ nTasks' = nTasks + 1) =>
              /\ tasks'[nTasks'].pc = "probe"
              /\ tasks'[nTasks'].enabled
              /\ ~tasks'[nTasks'].tick
              /\ checks' = checks + 1
       /\ \A t \in TaskIDs : tasks'[t].pc # "idle" => tasks'[t].enabled]_vars

\* C14 witness: the task AddMonitor started for an untracked monitor has
\* appended the CheckResult of its first check and waits for its first tick
C14_Witness ==
    /\ nTasks = Cardinality(MonitorIDs) + 1
    /\ tasks[nTasks].pc = "select"
    /\ tasks[nTasks].enabled
    /\ tasks[nTasks].tickerOn
    /\ checks = Cardinality(MonitorIDs) + 1
    /\ \E id \in MonitorIDs : monitors[id] = nTasks /\ results[id] = 1

\* C15: while the last Start has returned the load error, no task has been
\* started, no check performed or recorded, and the tracked map is empty.
C15_FailedStartStartsNothing ==
    startErr =>
        /\ ~started
        /\ nTasks = 0
        /\ checks = 0
        /\ \A id \in MonitorIDs : monitors[id] = 0 /\ results[id] = 0
        /\ \A t \in TaskIDs : tasks[t] = NoTask

\* C15 witness: Start has failed and time has passed since
C15_Witness ==
    /\ startErr
    /\ ~started
    /\ clock > ClockStart
    /\ \A t \in TaskIDs : tasks[t].pc = "idle"

\* C16: a step a task takes while the store is failing never ends its
\* goroutine or stops its ticker, and the evaluation of a probe outcome still
\* advances the in-memory Monitor: a success gives status up and count 0, a
\* failure gives count + 1 and status down from the threshold on.
C16_StoreErrorsNotFatal ==
    [][\A t \in TaskIDs :
          (storeDown /\ tasks'[t] # tasks[t]) =>
              /\ tasks'[t].pc # "exited"
              /\ tasks'[t].tickerOn
              /\ ~tasks'[t].stopped
              /\ tasks[t].pc = "probe" =>
                    \/ tasks'[t].status = "up" /\ tasks'[t].fails = 0
                    \/ /\ tasks'[t].fails = tasks[t].fails + 1
                       /\ tasks'[t].status =
                              IF tasks'[t].fails >= DefaultMaxFailures
                              THEN "down" ELSE tasks[t].status]_vars

\* C16 witness: after two failing probes none of whose writes reached the
\* store, the in-memory count is 2 and the third check is running
C16_Witness ==
    \E t \in TaskIDs :
        /\ storeDown
        /\ tasks[t].pc = "probe"
        /\ tasks[t].fails = 2
        /\ results[tasks[t].mon] = 0
        /\ dbMonitors[tasks[t].mon].fails = 0

\* C17: an evaluation that has made a NotifyDown call, in a scheduler task
\* or in the tray's round, has left the consecutive-failure count of its
\* Monitor at 3 or more.
C17_DownAlertAtThreshold ==
    /\ \A t \in TaskIDs :
          tasks[t].evNotified > 0 => tasks[t].fails >= DefaultMaxFailures
    /\ tray.notified = "down" => tray.fails >= DefaultMaxFailures

\* C17 witness: the scheduler has alerted once, and the tray's round, whose
\* copy of the row had count 2, has alerted on its own third failure
C17_Witness ==
    /\ tray.pc = "save"
    /\ tray.notified = "down"
    /\ tray.fails = DefaultMaxFailures
    /\ Len(downLog) = 1

\* the elements of a sequence
Range(seq) == {seq[i] : i \in 1..Len(seq)}

\* the entries of a comma-separated string, whitespace around them removed
Entries(str) == [i \in 1..Len(Split(str, ",")) |-> TrimSpace(Split(str, ",")[i])]

\* a valid entry: a positive integer written in digits
IsCode(e) == e # <<>> /\ (\A i \in 1..Len(e) : e[i] \in Digits) /\ DecimalValue(e) > 0

\* C18: ParseExpectedCodes returns the listed codes when every entry, its
\* surrounding whitespace ignored, is a valid code, and {200} when the string
\* is empty or every entry is invalid.
C18_ParseExpectedCodes ==
    callResult.done =>
        LET es == Entries(callArgs)
            codes == Range(callResult.value)
        IN  /\ (\A i \in 1..Len(es) : IsCode(es[i])) =>
                   codes = {DecimalValue(es[i]) : i \in 1..Len(es)}
            /\ (callArgs = <<>> \/ \A i \in 1..Len(es) : ~IsCode(es[i])) =>
                   codes = {200}

\* the set of status codes an expected-codes string of ExpectedStrings stands for
ExpectedSet(expected) == IF expected = <<>> THEN {200} ELSE {200, 201}

\* the same letter, in either case
SameLetter(a, b) == a = b \/ {a, b} = {"k", "K"} \/ {a, b} = {"o", "O"}

\* kw occurs in body as a substring, case ignored
Occurs(kw, body) ==
    \E i \in 0..(Len(body) - Len(kw)) :
        \A j \in 1..Len(kw) : SameLetter(kw[j], body[i + j])

\* the configured keywords: the non-empty entries of the keywords string
Configured(keywords) == SelectSeq(Entries(keywords), LAMBDA e : e # <<>>)

\* C19: a probe whose status code is accepted succeeds exactly when every
\* configured keyword occurs in the body, case ignored; otherwise it fails
\* naming the first keyword that does not occur; with no keyword configured
\* it succeeds whatever the body.
C19_KeywordsConjunctive ==
    (/\ callResult.done
     /\ callArgs.fault = "none"
     /\ callArgs.status \in ExpectedSet(callArgs.expected)) =>
        LET kws == Configured(callArgs.keywords)
            missing == {i \in 1..Len(kws) : ~Occurs(kws[i], callArgs.body)}
            out == callResult.value
        IN  /\ out.success <=> missing = {}
            /\ missing # {} =>
                  /\ out.reason = "keyword"
                  /\ \E i \in missing :
                        /\ \A j \in missing : i <= j
                        /\ out.keyword = kws[i]
            /\ kws = <<>> => out.success

\* C19 witness: keywords "ok,ready" on the body "OK": the probe fails, naming
\* "ready"
C19_Witness ==
    /\ callResult.done
    /\ callArgs.fault = "none"
    /\ callArgs.status = 200
    /\ callArgs.keywords = ExampleKeywords
    /\ callArgs.body = ExampleBody
    /\ ~callResult.value.success
    /\ callResult.value.keyword = <<"r", "e", "a", "d", "y">>

\* C20: performCheck fails on the first of transport, body read, status
\* code, keywords that fails and looks no further: a request-construction or
\* transport failure records status code 0, every later failure and the
\* success record the received status code, and the status code passes
\* exactly when it is a member of the expected set.
C20_CheckOrder ==
    callResult.done =>
        LET in == callArgs
            out == callResult.value
        IN  /\ in.fault \in {"request", "transport"} =>
                  ~out.success /\ out.code = 0 /\ out.reason = in.fault
            /\ in.fault = "read" =>
                  ~out.success /\ out.code = in.status /\ out.reason = "read"
            /\ (in.fault = "none" /\ in.status \notin ExpectedSet(in.expected)) =>
                  ~out.success /\ out.code = in.status /\ out.reason = "status"
            /\ (in.fault = "none" /\ in.status \in ExpectedSet(in.expected)) =>
                  /\ out.code = in.status
                  /\ out.reason \in {"keyword", "none"}
                  /\ out.success <=> out.reason = "none"

\* C20 witness: status 201 against the default expected set {200}, with a
\* keyword the body lacks: the failure is the status code's and records 201
C20_Witness ==
    /\ callResult.done
    /\ callArgs.fault = "none"
    /\ callArgs.status = 201
    /\ callArgs.expected = <<>>
    /\ callArgs.keywords = <<"k">>
    /\ callArgs.body = <<"o">>
    /\ callResult.value.reason = "status"
    /\ callResult.value.code = 201

\* C21: a monitor whose configured timeout is zero or negative is probed with
\* the default timeout, 10 seconds, as its deadline.
C21_DefaultTimeout ==
    (callResult.done /\ callArgs <= 0) => callResult.value = DefaultTimeout

\* C22: the ticker of a task runs on the configured check interval when that
\* is at least 1 second and on the default, 60 seconds, when it is zero,
\* negative or unset (the zero value); it is never below 1 second.
C22_TickInterval ==
    callResult.done =>
        /\ callArgs >= 1 => callResult.value = callArgs
        /\ callArgs <= 0 => callResult.value = DefaultCheckInterval
        /\ callResult.value >= 1

\* C22 witness: an unset interval (0) ticks every 60 seconds
C22_Witness ==
    /\ callResult.done
    /\ callArgs = 0
    /\ callResult.value = 60

\* the store holds no Monitor, no CheckResult and no Incident for id
Gone(id) ==
    /\ ~dbMonitors[id].exists
    /\ results[id] = 0
    /\ \A i \in incidents : i.mon # id

\* C23: DeleteMonitor(id) leaves no Monitor, no CheckResult and no Incident
\* of id in the store, and once they are gone none of them comes back.
C23_DeleteCascades ==
    [][\A id \in MonitorIDs :
          /\ (dbMonitors[id].exists /\ ~dbMonitors'[id].exists) => Gone(id)'
          /\ Gone(id) => Gone(id)']_vars

\* C24: every probe creates exactly one CheckResult, whichever way
\* performCheck ends; that of a success has an empty error text, that of a
\* failure has latency 0 and a non-empty error text, and status code 0 when
\* no response was received (the request could not be built or sent).
C24_OneCheckResult ==
    callResult.done =>
        LET in == callArgs
            out == callResult.value
        IN  /\ Len(out.results) = 1
            /\ out.results[1].success = out.success
            /\ out.success => out.results[1].error = ""
            /\ ~out.success =>
                  /\ out.results[1].latency = 0
                  /\ out.results[1].error # ""
                  /\ in.fault \in {"request", "transport"} =>
                        out.results[1].code = 0

\* C24 witness: a request that took 1001 ms before the transport gave up is
\* recorded as one failure with latency 0, status code 0 and an error text
C24_Witness ==
    /\ callResult.done
    /\ callArgs.fault = "transport"
    /\ callArgs.latency = 1001
    /\ Len(callResult.value.results) = 1
    /\ ~callResult.value.results[1].success
    /\ callResult.value.results[1].latency = 0
    /\ callResult.value.results[1].code = 0
    /\ callResult.value.results[1].error # ""

\* the map a GetStatus returning now should return: the tracked ids, each
\* with the status its Monitor has
CurrentStatuses ==
    [id \in MonitorIDs |->
        IF monitors[id] = 0 THEN "absent" ELSE tasks[monitors[id]].status]

\* C25: GetStatus returns the tracked ids, each with its current status;
\* it changes nothing of the scheduler, the tasks or the store; and no task
\* writes the status of a tracked monitor while GetStatus holds the lock under
\* which it reads it.
C25_GetStatus ==
    [][/\ (snapshot.pc = "reading" /\ snapshot'.pc = "idle") =>
             snapshot.status = CurrentStatuses
       /\ snapshot' # snapshot =>
             UNCHANGED <<dbVars, schedVars, tasks, checks, logVars>>
       /\ snapshot.pc = "reading" =>
             \A id \in MonitorIDs :
                 monitors[id] # 0 =>
                     tasks'[monitors[id]].status = tasks[monitors[id]].status]_vars

\* the status values of a Monitor
Statuses == {"unknown", "up", "down"}

\* C26: every status the scheduler or the tray's round gives a Monitor, in
\* memory and in the store, is unknown, up or down; a probe the tray
\* classifies as slow (over 1000 ms) leaves the status up.
C26_StatusValues ==
    /\ \A id \in MonitorIDs : dbMonitors[id].status \in Statuses
    /\ \A t \in TaskIDs : tasks[t].status \in Statuses
    /\ tray.status \in Statuses
    /\ tray.class = "slow" => tray.status = "up"

\* C26 witness: the tray's round is about to save a monitor that was down
\* and has just answered slowly: its status is up
C26_Witness ==
    /\ tray.pc = "save"
    /\ tray.class = "slow"
    /\ tray.hasSlow
    /\ tray.notified = "recovery"
    /\ tray.status = "up"

\* the monitors of a finished round whose probe failed, whose probe was slow,
\* and whose saved status is down
FailedIn(pass) == {i \in 1..Len(pass) : ~pass[i].ok}
SlowIn(pass) == {i \in 1..Len(pass) : pass[i].ok /\ pass[i].latency > 1000}
DownAfter(out) == {i \in DOMAIN out.saved : out.saved[i].status = "down"}

DownCalls(id) == {i \in 1..Len(downLog) : downLog[i].mon = id}

\* task t, in an evaluation that began with the status down, takes the step
\* that writes the error text of the Incident
FurtherFailureUpdates(t) ==
    /\ tasks[t].pc = "rfUpdate"
    /\ tasks'[t].pc = "rfNotify"
    /\ ~storeDown

\* task t, in an evaluation that began with the status down, makes a
\* NotifyDown call
FurtherFailureNotifies(t) ==
    /\ tasks[t].pc = "rfNotify"
    /\ tasks[t].prev = "down"
    /\ Len(downLog') = Len(downLog) + 1

\* C28: while a monitor stays down, every further failing probe leaves its
\* diagnostic as the stored error text of the active Incident, and makes a
\* NotifyDown call only when the cooldown window has passed since the previous
\* NotifyDown call for the monitor.
C28_FurtherFailures ==
    [][\A t \in TaskIDs :
          /\ FurtherFailureUpdates(t) =>
                GetActiveIncident(incidents', tasks[t].mon).errorMessage
                    = errorMsg(tasks[t].fails)
          /\ FurtherFailureNotifies(t) =>
                \A i \in DownCalls(tasks[t].mon) :
                    clock - downLog[i].at >= NotificationCooldown]_vars

\* task t takes the step of its down-notification request
DownRequest(t) ==
    /\ tasks[t].pc = "rfNotify"
    /\ tasks'[t].pc = "rfSave"

\* the step makes a NotifyDown call
DownCallMade == Len(downLog') = Len(downLog) + 1

\* lastNotified of the monitor of task t: that of the tracked monitorState of
\* its id, and for an id no longer tracked that of the task's own
MonitorLastNotified(t) ==
    IF monitors[tasks[t].mon] # 0 THEN tasks[monitors[tasks[t].mon]].lastNotified
    ELSE tasks[t].lastNotified

\* C29: a down-notification request is honoured exactly when 300 s or more
\* have passed since the monitor's lastNotified; lastNotified is set to the
\* current time when the notification is made and is left as it was when the
\* request is suppressed.
C29_CooldownGate ==
    [][\A t \in TaskIDs :
          DownRequest(t) =>
              /\ DownCallMade <=> clock - MonitorLastNotified(t) >= 300
              /\ DownCallMade => MonitorLastNotified(t)' = clock
              /\ ~DownCallMade =>
                    \A u \in TaskIDs : tasks'[u].lastNotified = tasks[u].lastNotified]_vars

\* C29 with the condition the code adds: the request is honoured exactly when
\* the monitor is still tracked and 300 s or more have passed since the
\* lastNotified of its tracked entry.
C29_CooldownGateTracked ==
    [][\A t \in TaskIDs :
          DownRequest(t) =>
              LET ms == monitors[tasks[t].mon] IN
              /\ DownCallMade <=> (ms # 0 /\ clock - tasks[ms].lastNotified >= 300)
              /\ DownCallMade => tasks'[ms].lastNotified = clock
              /\ ~DownCallMade =>
                    \A u \in TaskIDs : tasks'[u].lastNotified = tasks[u].lastNotified]_vars

\* C29 witness: a monitor that alerted at the third failure has failed again
\* within the window: the request was suppressed and lastNotified still holds
\* the time of the one call made
C29_Witness ==
    \E t \in TaskIDs :
        /\ tasks[t].pc = "rfSave"
        /\ tasks[t].prev = "down"
        /\ tasks[t].gate = "cooldown"
        /\ tasks[t].evNotified = 0
        /\ monitors[tasks[t].mon] = t
        /\ Len(downLog) = 1
        /\ tasks[t].lastNotified = downLog[1].at

\* task t returns from recordSuccess or recordFailure
Returns(t) ==
    /\ tasks[t].pc \in {"probe", "rsGet", "rsResolve", "rsNotify", "rfSave"}
    /\ tasks'[t].pc = "select"

\* the stored row of the monitor of task t holds the status and the count the
\* task has in memory (UpdateMonitor writes LastCheckAt in the same Save)
MonitorStored(t) ==
    dbMonitors'[tasks[t].mon] =
        [exists |-> TRUE, status |-> tasks'[t].status, fails |-> tasks'[t].fails]

\* what the evaluation task t returns from did to an Incident is in the store:
\* the resolution and the recovery mark of the Incident it resolved, the
\* Incident it created, the error text it wrote
IncidentChangesStored(t) ==
    /\ tasks[t].pc \in {"rsResolve", "rsNotify"} =>
          \E i \in incidents' :
              /\ i.id = tasks[t].incident.id
              /\ i.resolvedAt # NULL
              /\ tasks[t].pc = "rsNotify" => i.recoveryNotified
    /\ (tasks[t].pc = "rfSave" /\ tasks[t].evCreated = 1) =>
          \E i \in incidents' :
              /\ i.mon = tasks[t].mon
              /\ i.errorMessage = errorMsg(tasks[t].fails)
    /\ (tasks[t].pc = "rfSave" /\ tasks[t].incident # NoIncident) =>
          \E i \in incidents' :
              /\ i.id = tasks[t].incident.id
              /\ i.errorMessage = errorMsg(tasks[t].fails)

\* C30: when recordSuccess or recordFailure returns and no store write has
\* failed, the stored Monitor has the status and the consecutive-failure count
\* the task has in memory, and every change the evaluation made to an
\* Incident is in the store.
C30_PersistedOnReturn ==
    [][\A t \in TaskIDs :
          (Returns(t) /\ faults = 0) =>
              MonitorStored(t) /\ IncidentChangesStored(t)]_vars

\* the call UpdateMonitor(m) with m.ID = id and m.Enabled = enabled returns
UpdateReturns(id, enabled) ==
    /\ UpdateMonitor(id, enabled)
    /\ ~panicked'

\* task t, whose monitorState an earlier UpdateMonitor replaced, starts a
\* check with the Monitor it was started with
ReplacedTaskChecks(t) ==
    /\ tasks[t].stopped
    /\ tasks[t].pc = "select"
    /\ tasks'[t].pc = "probe"

\* C31: UpdateMonitor(m) leaves exactly one tracked task for m.ID if m is
\* enabled and none if it is disabled, and every check for m.ID that starts
\* after UpdateMonitor has returned is made by the task UpdateMonitor started,
\* with the updated configuration, never by the task it replaced.
C31_UpdateReplaces ==
    [][/\ \A id \in MonitorIDs, enabled \in BOOLEAN :
              UpdateReturns(id, enabled) =>
                  /\ (monitors'[id] # 0) <=> enabled
                  /\ enabled => /\ ~tasks'[monitors'[id]].stopped
                                /\ tasks'[monitors'[id]].enabled
       /\ \A t \in TaskIDs : ~ReplacedTaskChecks(t)]_vars

\* status and consecutive-failure count agree: down only from the threshold
\* on, up only below it
StatusMatchesCount(status, fails) ==
    /\ status = "down" => fails >= DefaultMaxFailures
    /\ status = "up" => fails < DefaultMaxFailures

\* C32: for a monitor that starts with status unknown and count 0, after every
\* completed evaluation the status down implies a consecutive-failure count of
\* at least the threshold and the status up implies a count below it, in the
\* task's Monitor and in the stored row.
C32_StatusMatchesCount ==
    /\ \A t \in TaskIDs :
          tasks[t].pc \in {"select", "exited"} =>
              StatusMatchesCount(tasks[t].status, tasks[t].fails)
    /\ \A id \in MonitorIDs :
          dbMonitors[id].exists =>
              StatusMatchesCount(dbMonitors[id].status, dbMonitors[id].fails)

\* an evaluation has returned with the monitor down at exactly the threshold,
\* and the stored row says the same
C32_Witness ==
    \E t \in TaskIDs :
        /\ tasks[t].pc = "select"
        /\ tasks[t].status = "down"
        /\ tasks[t].fails = DefaultMaxFailures
        /\ dbMonitors[tasks[t].mon].exists
        /\ dbMonitors[tasks[t].mon].status = "down"
        /\ dbMonitors[tasks[t].mon].fails = DefaultMaxFailures

\* task t evaluates a failed probe: the step of recordFailure that appends the
\* CheckResult and increments the count of the task's Monitor
EvaluatesFailure(t) ==
    /\ tasks[t].pc = "probe"
    /\ tasks'[t].pc \in {"rfNotify", "rfGet", "rfSave"}

\* C33: under every interleaving of a monitor's tasks, the
\* consecutive-failure count after an evaluation equals the number of failing
\* probes recorded for the monitor since its most recent successful probe;
\* while no probe has succeeded, that is the initial count 0 plus every
\* CheckResult recorded for it.
C33_CountMatchesRecorded ==
    [][\A t \in TaskIDs :
          EvaluatesFailure(t) =>
              tasks'[t].fails = results'[tasks[t].mon]]_vars

\* C34: in every sequence of Start, AddMonitor, RemoveMonitor, UpdateMonitor
\* and Stop calls, Stop possibly called twice (on context cancellation and
\* explicitly), no stop channel, c.stopChan or a monitorState's, is closed a
\* second time: no call panics.
C34_NoDoubleClose == panicked = FALSE

\* C35: provided every probe and notifier call terminates, a call to Stop
\* returns: once Stop has closed the stop channels and waits in wg.Wait(),
\* every task goroutine sees a stop signal and exits and Stop returns; no task
\* stays for ever in front of c.mu.Lock() of recordFailure, and c.mu does not
\* stay held, so that Stop (and every other scheduler operation) gets it.
C35_StopReturns ==
    /\ (stopCall = "waiting") ~> (stopCall = "returned")
    /\ \A t \in TaskIDs : (tasks[t].pc = "rfNotify") ~> (tasks[t].pc # "rfNotify")
    /\ (~MuFree) ~> MuFree

\* Stop has returned: the task it found at the down notification of
\* recordFailure has exited
C35_Witness ==
    /\ stopCall = "returned"
    /\ \E t \in TaskIDs :
          /\ tasks[t].pc = "exited"
          /\ tasks[t].sNotified > 0

\* task t evaluates a successful probe: the step of recordSuccess that sets
\* status and count and saves the Monitor
EvaluatesSuccess(t) ==
    /\ tasks[t].pc = "probe"
    /\ tasks'[t].pc \in {"rsGet", "select"}

\* the row the tray loop stores for a monitor it read as (status, fails) when
\* its probe falls in class
TrayRow(status, fails, class) ==
    [exists |-> TRUE,
     status |-> trayEvaluate(status, fails, class).status,
     fails |-> trayEvaluate(status, fails, class).fails]

\* the row a task holds in its Monitor
TaskRow(task) == [exists |-> TRUE, status |-> task.status, fails |-> task.fails]

\* C36: from the same status and consecutive-failure count and on the same
\* probe outcome, the scheduler's recordSuccess / recordFailure and the tray
\* check loop compute and store the same status and count; evaluation by
\* evaluation, so the two produce the same sequence of stored values.
C36_SameEvaluation ==
    [][\A t \in TaskIDs :
          /\ EvaluatesSuccess(t) =>
                \A class \in {"up", "slow"} :
                    /\ TaskRow(tasks'[t]) =
                          TrayRow(tasks[t].status, tasks[t].fails, class)
                    /\ dbMonitors'[tasks[t].mon] = TaskRow(tasks'[t])
          /\ EvaluatesFailure(t) =>
                TaskRow(tasks'[t]) = TrayRow(tasks[t].status, tasks[t].fails, "down")
          /\ (tasks[t].pc = "rfSave" /\ tasks'[t].pc = "select") =>
                dbMonitors'[tasks[t].mon] = TaskRow(tasks[t])]_vars

\* the scheduler's task and the tray loop have both evaluated the third
\* failure in a row and hold the same row to store
C36_Witness ==
    \E t \in TaskIDs :
        /\ tasks[t].pc = "rfSave"
        /\ tray.pc = "save"
        /\ tray.mon = tasks[t].mon
        /\ tray.status = "down"
        /\ tray.fails = DefaultMaxFailures
        /\ TaskRow(tasks[t]) = [exists |-> TRUE, status |-> tray.status, fails |-> tray.fails]

\* C37: rounds of checkAllMonitors exclude each other: a round started by
\* "Refresh Now" is never in progress together with the periodic round, so no
\* monitor is probed, counted and written back by two rounds at once.
C37_PassesExclusive == ~(tray.pc # "idle" /\ refresh.pc # "idle")

\* a string that is a decimal number: digits, at least one, after an optional
\* sign
IsDecimal(s) ==
    LET tok == IF s # <<>> /\ Head(s) \in {"+", "-"} THEN Tail(s) ELSE s IN
    /\ tok # <<>>
    /\ \A i \in 1..Len(tok) : tok[i] \in {"0", "1", "2", "3", "4", "5", "6", "7", "8", "9"}

\* the number a decimal string of the values tried stands for is below 1: it
\* is negative or all its digits are 0
BelowOne(s) ==
    \/ Head(s) = "-"
    \/ \A i \in 1..Len(s) : s[i] \in {"0", "+"}

\* a field value the form does not take as typed: not a number, or below 1
NotTaken(s) == ~IsDecimal(s) \/ BelowOne(s)

\* C38: saving the form with an empty name or an empty URL sets the form
\* error, writes nothing to the store and returns no saved message; with both
\* given (and the store accepting the write) the form is saved, a
\* non-numeric or below-1 interval being replaced by 60, such a timeout by 10
\* and an empty expected-codes field by "200".
C38_FormSave ==
    callResult.done =>
        LET form == callArgs
            out == callResult.value
        IN  /\ (form.name = <<>> \/ form.url = <<>>) =>
                  /\ out.err # ""
                  /\ out.written = <<>>
                  /\ ~out.saved
            /\ (TrimSpace(form.name) # <<>> /\ TrimSpace(form.url) # <<>> /\ ~form.dbErr) =>
                  /\ out.err = ""
                  /\ out.saved
                  /\ Len(out.written) = 1
                  /\ NotTaken(form.interval) =>
                        out.written[1].interval = DefaultCheckInterval
                  /\ NotTaken(form.timeout) =>
                        out.written[1].timeout = DefaultTimeout
                  /\ form.expectedCodes = <<>> =>
                        out.written[1].expectedCodes = <<"2", "0", "0">>

\* a form with a name and a URL, an interval that is no number, a timeout of
\* 0 and no expected codes has been saved with 60, 10 and "200"
C38_Witness ==
    /\ callResult.done
    /\ callArgs.name # <<>>
    /\ callArgs.interval = <<"2", "x">>
    /\ callArgs.timeout = <<"0">>
    /\ callArgs.expectedCodes = <<>>
    /\ callResult.value.saved
    /\ callResult.value.written[1].interval = 60
    /\ callResult.value.written[1].timeout = 10
    /\ callResult.value.written[1].expectedCodes = <<"2", "0", "0">>

====
